---- MODULE Spec2Model ----
(***************************************************************************)
(* Verification model of the outline crate: the mask-operation pipeline    *)
(* (src/src/mask.rs), the builder handles (src/src/lib.rs) and the         *)
(* foreground composition (src/src/foreground.rs).                         *)
(*                                                                         *)
(* Images are records [w, h, px]; px is the row-major raw buffer           *)
(* (GrayImage::as_raw), so pixel (x, y) is px[y * w + x + 1].              *)
(* A dilation radius r (an f32) is the exact rational <<num, den>>.        *)
(***************************************************************************)
EXTENDS Integers, Sequences, FiniteSets, TLC

VARIABLES
    \* a function of the crate applied to drawn inputs
    input, call, out, call2, out2,
    \* the library handles of one image
    inferenced, handle, processedCall, ncalls,
    \* the images in memory and the handles that refer to them
    heap, live,
    \* the files on disk
    files

fnVars == <<input, call, out, call2, out2>>
handleVars == <<inferenced, handle, processedCall, ncalls>>
heapVars == <<heap, live, files>>
vars == <<fnVars, handleVars, heapVars>>

\* no call made yet, no value returned yet
NoCall == [fn |-> "none"]
NoValue == <<>>

(***************************************************************************)
(* Bounds of the model.                                                    *)
(***************************************************************************)
MaxSide == 3
MaxPixels == 9
\* apply_operations: largest source image and longest operation list
MaxApplyPixels == 6
MaxOps == 2
\* compose_foreground: largest rgb image and largest alpha matte
MaxFgPixels == 4
\* handles: calls (matte, builder calls, processed) made on one image
MaxCalls == 5

(***************************************************************************)
(* Input domains.                                                          *)
(***************************************************************************)
\* gray levels of the two-level input images: off pixels are Lo, on pixels Hi
LoLevels == {0, 100}
HiLevels == {120, 255}
Thresholds == {0, 100, 120, 255}
Radii == {<<0, 1>>, <<1, 1>>, <<3, 2>>, <<2, 1>>}

Sigmas == {<<2, 1>>, <<6, 1>>}
OptionThresholds == {100, 120}
OptionRadii == {<<1, 1>>, <<5, 1>>}

\* every MaskProcessingOptions record over the parameter values above
MaskProcessingOptionsSet ==
    [binary : BOOLEAN, blur : BOOLEAN, blur_sigma : Sigmas,
     mask_threshold : OptionThresholds, dilate : BOOLEAN,
     dilation_radius : OptionRadii, fill_holes : BOOLEAN]

DimsUpTo(n) == {d \in (1..MaxSide) \X (1..MaxSide) : d[1] * d[2] <= n}

\* the two-level gray images of the given dimensions
GrayImagesOf(dims) ==
    UNION {{[w |-> d[1], h |-> d[2],
             px |-> [i \in 1..(d[1] * d[2]) |-> IF i \in on THEN hi ELSE lo]] :
              on \in SUBSET (1..(d[1] * d[2])), lo \in LoLevels, hi \in HiLevels} :
           d \in dims}

GrayImages == GrayImagesOf(DimsUpTo(MaxPixels))

\* the images and options of the handles
RawMattes ==
    {[w |-> 3, h |-> 3, px |-> <<255, 255, 200, 255, 90, 255, 0, 255, 130>>],
     [w |-> 2, h |-> 2, px |-> <<0, 130, 90, 255>>]}

BuilderSigmas == {<<1, 1>>}
BuilderThresholds == {100}
BuilderRadii == {<<1, 1>>}

\* inputs of compose_foreground
Colors == {<<10, 20, 30>>, <<255, 128, 64>>}
AlphaLevels == {0, 128, 255}

RgbImages ==
    UNION {{[w |-> d[1], h |-> d[2], px |-> p] : p \in [1..(d[1] * d[2]) -> Colors]} :
           d \in DimsUpTo(MaxFgPixels)}

AlphaMattes ==
    UNION {{[w |-> d[1], h |-> d[2], px |-> p] : p \in [1..(d[1] * d[2]) -> AlphaLevels]} :
           d \in DimsUpTo(MaxFgPixels)}

(***************************************************************************)
(* image::GrayImage accessors.                                             *)
(***************************************************************************)
idx(w, x, y) == y * w + x

get_pixel(img, x, y) == img.px[idx(img.w, x, y) + 1]

dimensions(img) == <<img.w, img.h>>

IsBinary(img) == \A i \in DOMAIN img.px : img.px[i] \in {0, 255}

(***************************************************************************)
(* threshold_mask: imageproc threshold, ThresholdType::Binary.             *)
(***************************************************************************)
ip_threshold(gray, thr) ==
    [gray EXCEPT !.px = [i \in DOMAIN gray.px |-> IF gray.px[i] > thr THEN 255 ELSE 0]]

threshold_mask_ge(gray, thr) ==
    [gray EXCEPT !.px = [i \in DOMAIN gray.px |-> IF gray.px[i] >= thr THEN 255 ELSE 0]]

threshold_mask(gray, thr) == ip_threshold(gray, thr)

(***************************************************************************)
(* dilate_euclidean.  The squared distance transform gives, per pixel, the *)
(* least dx*dx + dy*dy to a foreground (non-zero) pixel, or Infinity when  *)
(* the image has no foreground pixel.                                      *)
(***************************************************************************)
\* a distance is <<d>>, or <<>> for f64::INFINITY
Infinity == <<>>

SetMin(S) == CHOOSE m \in S : \A n \in S : m <= n

euclidean_squared_distance_transform(img) ==
    LET fg == {<<x, y>> \in (0..(img.w - 1)) \X (0..(img.h - 1)) : get_pixel(img, x, y) > 0}
    IN  [i \in DOMAIN img.px |->
            LET x == (i - 1) % img.w
                y == (i - 1) \div img.w
            IN  IF fg = {} THEN Infinity
                ELSE <<SetMin({(x - p[1]) * (x - p[1]) + (y - p[2]) * (y - p[2]) : p \in fg})>>]

\* d2xy <= r2 for r = num/den, in exact arithmetic
d2_le_r2(d2xy, r) ==
    /\ d2xy # Infinity
    /\ d2xy[1] * r[2] * r[2] <= r[1] * r[1]

d2_lt_r2(d2xy, r) ==
    /\ d2xy # Infinity
    /\ d2xy[1] * r[2] * r[2] < r[1] * r[1]

dilate_euclidean_strict(mask_bin, r) ==
    LET d2 == euclidean_squared_distance_transform(mask_bin)
    IN  [mask_bin EXCEPT !.px = [i \in DOMAIN mask_bin.px |->
                                    IF d2_lt_r2(d2[i], r) THEN 255 ELSE 0]]

\* the two branches swapped: 255 where the distance exceeds the radius
dilate_euclidean_swapped(mask_bin, r) ==
    LET d2 == euclidean_squared_distance_transform(mask_bin)
    IN  [mask_bin EXCEPT !.px = [i \in DOMAIN mask_bin.px |->
                                    IF d2_le_r2(d2[i], r) THEN 0 ELSE 255]]

dilate_euclidean(mask_bin, r) ==
    LET d2 == euclidean_squared_distance_transform(mask_bin)
    IN  [mask_bin EXCEPT !.px = [i \in DOMAIN mask_bin.px |->
                                    IF d2_le_r2(d2[i], r) THEN 255 ELSE 0]]

(***************************************************************************)
(* fill_mask_holes: breadth-first flood fill from the dark border pixels.  *)
(* visited is indexed by idx(x, y), the queue holds <<x, y>> pairs.        *)
(***************************************************************************)
IsDark(mask, threshold, x, y) == get_pixel(mask, x, y) < threshold

\* for x in 0..w: the top-row and bottom-row pixel of column x
RECURSIVE SeedRows(_, _, _)
SeedRows(mask, threshold, x) ==
    IF x >= mask.w THEN <<>>
    ELSE (IF IsDark(mask, threshold, x, 0) THEN <<<<x, 0>>>> ELSE <<>>)
         \o (IF IsDark(mask, threshold, x, mask.h - 1) THEN <<<<x, mask.h - 1>>>> ELSE <<>>)
         \o SeedRows(mask, threshold, x + 1)

\* for y in 0..h: the left-column and right-column pixel of row y
RECURSIVE SeedCols(_, _, _)
SeedCols(mask, threshold, y) ==
    IF y >= mask.h THEN <<>>
    ELSE (IF IsDark(mask, threshold, 0, y) THEN <<<<0, y>>>> ELSE <<>>)
         \o (IF IsDark(mask, threshold, mask.w - 1, y) THEN <<<<mask.w - 1, y>>>> ELSE <<>>)
         \o SeedCols(mask, threshold, y + 1)

BorderSeeds(mask, threshold) == SeedRows(mask, threshold, 0) \o SeedCols(mask, threshold, 0)

\* the flood also steps to the four diagonal neighbours
Neighbours_diagonal(mask, threshold, visited, x, y) ==
    LET Push(c, nx, ny) ==
            IF c /\ ~visited[idx(mask.w, nx, ny)] /\ IsDark(mask, threshold, nx, ny)
            THEN <<<<nx, ny>>>> ELSE <<>>
    IN  Push(x > 0, x - 1, y) \o Push(x + 1 < mask.w, x + 1, y)
        \o Push(y > 0, x, y - 1) \o Push(y + 1 < mask.h, x, y + 1)
        \o Push(x > 0 /\ y > 0, x - 1, y - 1) \o Push(x + 1 < mask.w /\ y > 0, x + 1, y - 1)
        \o Push(x > 0 /\ y + 1 < mask.h, x - 1, y + 1)
        \o Push(x + 1 < mask.w /\ y + 1 < mask.h, x + 1, y + 1)

\* the neighbours (left, right, up, down) enqueued when (x, y) is marked
Neighbours(mask, threshold, visited, x, y) ==
    LET Push(c, nx, ny) ==
            IF c /\ ~visited[idx(mask.w, nx, ny)] /\ IsDark(mask, threshold, nx, ny)
            THEN <<<<nx, ny>>>> ELSE <<>>
    IN  Push(x > 0, x - 1, y) \o Push(x + 1 < mask.w, x + 1, y)
        \o Push(y > 0, x, y - 1) \o Push(y + 1 < mask.h, x, y + 1)

\* while let Some((x, y)) = queue.pop_front()
RECURSIVE Bfs(_, _, _, _)
Bfs(mask, threshold, queue, visited) ==
    IF queue = <<>> THEN visited
    ELSE LET x == Head(queue)[1]
             y == Head(queue)[2]
             id == idx(mask.w, x, y)
         IN  IF visited[id] THEN Bfs(mask, threshold, Tail(queue), visited)
             ELSE LET marked == [visited EXCEPT ![id] = TRUE]
                  IN  Bfs(mask, threshold,
                          Tail(queue) \o Neighbours(mask, threshold, marked, x, y), marked)

FloodVisited(mask, threshold) ==
    Bfs(mask, threshold, BorderSeeds(mask, threshold),
        [id \in 0..(mask.w * mask.h - 1) |-> FALSE])

\* the two output values swapped
fill_mask_holes_inverted(mask, threshold) ==
    LET visited == FloodVisited(mask, threshold)
    IN  [mask EXCEPT !.px = [i \in DOMAIN mask.px |->
            IF mask.px[i] >= threshold \/ ~visited[i - 1] THEN 0 ELSE 255]]

fill_mask_holes(mask, threshold) ==
    LET visited == FloodVisited(mask, threshold)
    IN  [mask EXCEPT !.px = [i \in DOMAIN mask.px |->
            IF mask.px[i] >= threshold \/ ~visited[i - 1] THEN 255 ELSE 0]]

(***************************************************************************)
(* Gaussian blur (imageproc::filter::gaussian_blur_f32): a separable       *)
(* smoothing kernel with clamped borders.  The kernel is the 3x3 binomial  *)
(* one, (1 2 1) x (1 2 1) / 16, rounded to nearest; sigma must be positive.*)
(***************************************************************************)
Clamp(v, lo, hi) == IF v < lo THEN lo ELSE IF v > hi THEN hi ELSE v

gaussian_blur_f32(image, sigma) ==
    [image EXCEPT !.px = [i \in DOMAIN image.px |->
        LET x == (i - 1) % image.w
            y == (i - 1) \div image.w
            P(dx, dy) == get_pixel(image, Clamp(x + dx, 0, image.w - 1),
                                          Clamp(y + dy, 0, image.h - 1))
        IN  (P(-1, -1) + 2 * P(0, -1) + P(1, -1)
             + 2 * P(-1, 0) + 4 * P(0, 0) + 2 * P(1, 0)
             + P(-1, 1) + 2 * P(0, 1) + P(1, 1) + 8) \div 16]]

(***************************************************************************)
(* MaskOperation, MaskOperation::apply, apply_operations and               *)
(* operations_from_options.                                                *)
(***************************************************************************)
Blur(sigma) == [op |-> "Blur", sigma |-> sigma]
Threshold(value) == [op |-> "Threshold", value |-> value]
Dilate(radius) == [op |-> "Dilate", radius |-> radius]
FillHoles(threshold) == [op |-> "FillHoles", threshold |-> threshold]

MaskOperation_apply(op, in) ==
    CASE op.op = "Blur" -> gaussian_blur_f32(in, op.sigma)
      [] op.op = "Threshold" -> threshold_mask(in, op.value)
      [] op.op = "Dilate" -> dilate_euclidean(in, op.radius)
      [] op.op = "FillHoles" -> fill_mask_holes(in, op.threshold)

\* the operations folded from the last to the first
RECURSIVE apply_operations_reversed(_, _)
apply_operations_reversed(source, operations) ==
    IF operations = <<>> THEN source
    ELSE MaskOperation_apply(Head(operations),
                             apply_operations_reversed(source, Tail(operations)))

RECURSIVE ApplyLoop(_, _)
ApplyLoop(current, operations) ==
    IF operations = <<>> THEN current
    ELSE ApplyLoop(MaskOperation_apply(Head(operations), current), Tail(operations))

apply_operations(source, operations) == ApplyLoop(source, operations)

\* Dilate pushed before Threshold
operations_from_options_swapped(options) ==
    (IF options.blur THEN <<Blur(options.blur_sigma)>> ELSE <<>>)
    \o (IF options.dilate THEN <<Dilate(options.dilation_radius)>> ELSE <<>>)
    \o (IF options.binary THEN <<Threshold(options.mask_threshold)>> ELSE <<>>)
    \o (IF options.fill_holes THEN <<FillHoles(options.mask_threshold)>> ELSE <<>>)

operations_from_options(options) ==
    (IF options.blur THEN <<Blur(options.blur_sigma)>> ELSE <<>>)
    \o (IF options.binary THEN <<Threshold(options.mask_threshold)>> ELSE <<>>)
    \o (IF options.dilate THEN <<Dilate(options.dilation_radius)>> ELSE <<>>)
    \o (IF options.fill_holes THEN <<FillHoles(options.mask_threshold)>> ELSE <<>>)

(***************************************************************************)
(* OutlineResult and compose_foreground.                                   *)
(***************************************************************************)
Ok(value) == [ok |-> TRUE, value |-> value]
Err(error) == [ok |-> FALSE, error |-> error]

AlphaMismatch(expected, found) ==
    [kind |-> "AlphaMismatch", expected |-> expected, found |-> found]

\* expected and found exchanged in the error
compose_foreground_swapped(rgb, alpha) ==
    LET expected == dimensions(rgb)
        found == dimensions(alpha)
    IN  IF expected # found THEN Err(AlphaMismatch(found, expected))
        ELSE Ok([w |-> rgb.w, h |-> rgb.h,
                 px |-> [i \in DOMAIN rgb.px |->
                            <<rgb.px[i][1], rgb.px[i][2], rgb.px[i][3], alpha.px[i]>>]])

compose_foreground(rgb, alpha) ==
    LET expected == dimensions(rgb)
        found == dimensions(alpha)
    IN  IF expected # found THEN Err(AlphaMismatch(expected, found))
        ELSE Ok([w |-> rgb.w, h |-> rgb.h,
                 px |-> [i \in DOMAIN rgb.px |->
                            <<rgb.px[i][1], rgb.px[i][2], rgb.px[i][3], alpha.px[i]>>]])

(***************************************************************************)
(* InferencedMatte, MatteHandle and MaskHandle (src/src/lib.rs).           *)
(***************************************************************************)
None == [some |-> FALSE]
Some(value) == [some |-> TRUE, value |-> value]

\* MaskProcessingOptions::default()
DefaultOptions ==
    [binary |-> FALSE, blur |-> FALSE, blur_sigma |-> <<6, 1>>, mask_threshold |-> 120,
     dilate |-> FALSE, dilation_radius |-> <<5, 1>>, fill_holes |-> FALSE]

NoHandle == [kind |-> "none"]
NoProcessedCall == [called |-> FALSE]

\* no image in memory, no handle, no file
NoHeap == heap = <<>> /\ live = <<>> /\ files = <<>>

NoHandles ==
    /\ inferenced = NoValue
    /\ handle = NoHandle
    /\ processedCall = NoProcessedCall
    /\ ncalls = 0
    /\ NoHeap

NoFunction ==
    /\ input = NoValue
    /\ call = NoCall /\ out = NoValue
    /\ call2 = NoCall /\ out2 = NoValue

InferencedMatte_new(rgb_image, raw_matte, default_mask_processing) ==
    [rgb_image |-> rgb_image, raw_matte |-> raw_matte,
     default_mask_processing |-> default_mask_processing]

MatteHandle(rgb_image, raw_matte, default_mask_processing, operations) ==
    [kind |-> "MatteHandle", rgb_image |-> rgb_image, raw_matte |-> raw_matte,
     default_mask_processing |-> default_mask_processing, operations |-> operations]

MaskHandle(rgb_image, mask, default_mask_processing, operations) ==
    [kind |-> "MaskHandle", rgb_image |-> rgb_image, mask |-> mask,
     default_mask_processing |-> default_mask_processing, operations |-> operations]

\* MaskHandle::new with the defaults of the library instead of the stored ones
MaskHandle_new_library_defaults(rgb_image, mask, default_mask_processing) ==
    MaskHandle(rgb_image, mask, DefaultOptions, <<>>)

\* MaskHandle::new: the queue starts empty
MaskHandle_new(rgb_image, mask, default_mask_processing) ==
    MaskHandle(rgb_image, mask, default_mask_processing, <<>>)

\* self.operations.push(op); self
Push(h, op) == [h EXCEPT !.operations = Append(@, op)]

\* Some(custom) replaces the queue instead of extending it
ProcessedOps_replace(operations, options, default_mask_processing) ==
    IF options.some THEN operations_from_options(options.value)
    ELSE IF operations = <<>> THEN operations_from_options(default_mask_processing)
    ELSE operations

\* the stored defaults are appended even when operations were queued
ProcessedOps_always_defaults(operations, options, default_mask_processing) ==
    IF options.some THEN operations \o operations_from_options(options.value)
    ELSE operations \o operations_from_options(default_mask_processing)

\* processed: the operation list handed to apply_operations
ProcessedOps(operations, options, default_mask_processing) ==
    IF options.some THEN operations \o operations_from_options(options.value)
    ELSE IF operations = <<>> THEN operations_from_options(default_mask_processing)
    ELSE operations

\* the image a handle's processed() works on
HandleImage(h) == IF h.kind = "MatteHandle" THEN h.raw_matte ELSE h.mask

(***************************************************************************)
(* The mask primitives applied to every bounded input image.               *)
(***************************************************************************)
RatLe(a, b) == a[1] * b[2] <= b[1] * a[2]

InitMask ==
    /\ NoHandles
    /\ input \in GrayImages
    /\ call = NoCall /\ out = NoValue
    /\ call2 = NoCall /\ out2 = NoValue

CallThresholdMask ==
    /\ call.fn = "none"
    /\ \E thr \in Thresholds :
          /\ call' = [fn |-> "threshold_mask", thr |-> thr]
          /\ out' = threshold_mask(input, thr)
    /\ UNCHANGED <<input, call2, out2, handleVars, heapVars>>

CallDilateEuclidean ==
    /\ call.fn = "none"
    /\ \E r \in Radii :
          /\ call' = [fn |-> "dilate_euclidean", r |-> r]
          /\ out' = dilate_euclidean(input, r)
    /\ UNCHANGED <<input, call2, out2, handleVars, heapVars>>

\* the same image dilated a second time, with a radius at least as large
CallDilateEuclideanWider ==
    /\ call.fn = "dilate_euclidean" /\ call2.fn = "none"
    /\ \E r \in Radii :
          /\ RatLe(call.r, r)
          /\ call2' = [fn |-> "dilate_euclidean", r |-> r]
          /\ out2' = dilate_euclidean(input, r)
    /\ UNCHANGED <<input, call, out, handleVars, heapVars>>

CallFillMaskHoles ==
    /\ call.fn = "none"
    /\ \E threshold \in Thresholds :
          /\ call' = [fn |-> "fill_mask_holes", threshold |-> threshold]
          /\ out' = fill_mask_holes(input, threshold)
    /\ UNCHANGED <<input, call2, out2, handleVars, heapVars>>

\* the result of fill_mask_holes filled again with the same threshold
CallFillMaskHolesAgain ==
    /\ call.fn = "fill_mask_holes" /\ call2.fn = "none"
    /\ call2' = call
    /\ out2' = fill_mask_holes(out, call.threshold)
    /\ UNCHANGED <<input, call, out, handleVars, heapVars>>

NextMask ==
    \/ CallThresholdMask
    \/ CallDilateEuclidean
    \/ CallDilateEuclideanWider
    \/ CallFillMaskHoles
    \/ CallFillMaskHolesAgain

SpecMask == InitMask /\ [][NextMask]_vars

(***************************************************************************)
(* Properties of the mask primitives.                                      *)
(***************************************************************************)
Coords(img) == (0..(img.w - 1)) \X (0..(img.h - 1))

SameShape(a, b) == dimensions(a) = dimensions(b) /\ Len(a.px) = Len(b.px)

\* C4: threshold_mask keeps the dimensions and maps a pixel to 255 if it is
\* strictly greater than the threshold and to 0 otherwise (a pixel equal to
\* the threshold becomes 0, the threshold 255 gives an all-zero image).
C4_ThresholdStrict ==
    call.fn = "threshold_mask" =>
        /\ SameShape(out, input)
        /\ \A c \in Coords(input) :
              get_pixel(out, c[1], c[2]) =
                  IF get_pixel(input, c[1], c[2]) > call.thr THEN 255 ELSE 0
        /\ call.thr = 255 => \A c \in Coords(input) : get_pixel(out, c[1], c[2]) = 0

\* a pixel equal to the threshold went to 0 while a brighter one went to 255
C4_Witness ==
    /\ call.fn = "threshold_mask"
    /\ \E c, d \in Coords(input) :
          /\ get_pixel(input, c[1], c[2]) = call.thr /\ get_pixel(out, c[1], c[2]) = 0
          /\ get_pixel(input, d[1], d[2]) > call.thr /\ get_pixel(out, d[1], d[2]) = 255

DarkPixels(img, t) == {c \in Coords(img) : get_pixel(img, c[1], c[2]) < t}

BorderPixels(img) ==
    {c \in Coords(img) : c[1] = 0 \/ c[1] = img.w - 1 \/ c[2] = 0 \/ c[2] = img.h - 1}

\* one left/right/up/down step
Step4(c, d) ==
    \/ c[2] = d[2] /\ (c[1] = d[1] + 1 \/ d[1] = c[1] + 1)
    \/ c[1] = d[1] /\ (c[2] = d[2] + 1 \/ d[2] = c[2] + 1)

\* the pixels of D joined to a pixel of S by a path of 4-steps inside D
RECURSIVE PathClosure(_, _)
PathClosure(S, D) ==
    LET grown == S \cup {d \in D : \E c \in S : Step4(c, d)}
    IN  IF grown = S THEN S ELSE PathClosure(grown, D)

BorderConnectedDark(img, t) ==
    PathClosure(DarkPixels(img, t) \cap BorderPixels(img), DarkPixels(img, t))

\* C5: fill_mask_holes outputs 0 exactly at the dark pixels (value < t) that
\* a path of dark pixels with only left/right/up/down steps joins to a dark
\* border pixel; every other pixel is 255; the dimensions are kept.
C5_FillHolesBorderFlood ==
    call.fn = "fill_mask_holes" =>
        /\ SameShape(out, input)
        /\ \A c \in Coords(input) :
              get_pixel(out, c[1], c[2]) =
                  IF c \in BorderConnectedDark(input, call.threshold) THEN 0 ELSE 255

\* a dark border pixel stays 0 while a dark pixel that only touches it
\* diagonally is an enclosed hole and becomes 255
C5_Witness ==
    /\ call.fn = "fill_mask_holes"
    /\ \E c, d \in DarkPixels(input, call.threshold) :
          /\ c \in BorderPixels(input) /\ get_pixel(out, c[1], c[2]) = 0
          /\ d \notin BorderPixels(input) /\ get_pixel(out, d[1], d[2]) = 255
          /\ (c[1] - d[1]) * (c[1] - d[1]) = 1 /\ (c[2] - d[2]) * (c[2] - d[2]) = 1

\* C6: FillHoles is idempotent: filling the result of fill_mask_holes again
\* with the same threshold gives the same image pixel for pixel.
C6_FillHolesIdempotent ==
    (call.fn = "fill_mask_holes" /\ call2.fn = "fill_mask_holes") => out2 = out

\* the first fill changed the image (it filled a hole) and was then repeated
C6_Witness ==
    /\ call.fn = "fill_mask_holes" /\ call2.fn = "fill_mask_holes"
    /\ \E c \in DarkPixels(input, call.threshold) : get_pixel(out, c[1], c[2]) = 255
    /\ \E c \in DarkPixels(input, call.threshold) : get_pixel(out, c[1], c[2]) = 0

OnPixels(img) == {c \in Coords(img) : get_pixel(img, c[1], c[2]) # 0}

\* dx*dx + dy*dy <= r*r for r = num/den
WithinRadius(c, d, r) ==
    ((c[1] - d[1]) * (c[1] - d[1]) + (c[2] - d[2]) * (c[2] - d[2])) * r[2] * r[2]
        <= r[1] * r[1]

\* C7: dilate_euclidean sets a pixel to 255 exactly when some on (non-zero)
\* input pixel lies at squared distance dx*dx + dy*dy <= r*r, and to 0
\* otherwise; no on pixel gives all 0; r = 0 keeps exactly the on pixels.
C7_DilateEuclideanDisk ==
    call.fn = "dilate_euclidean" =>
        /\ SameShape(out, input)
        /\ \A c \in Coords(input) :
              get_pixel(out, c[1], c[2]) =
                  IF \E d \in OnPixels(input) : WithinRadius(c, d, call.r) THEN 255 ELSE 0
        /\ OnPixels(input) = {} => \A c \in Coords(input) : get_pixel(out, c[1], c[2]) = 0
        /\ call.r[1] = 0 => \A c \in Coords(input) :
              get_pixel(out, c[1], c[2]) = 255 <=> c \in OnPixels(input)

\* an off pixel at distance exactly r from the nearest on pixel was switched
\* on, while another off pixel further away stayed 0
C7_Witness ==
    /\ call.fn = "dilate_euclidean"
    /\ \E c, e \in Coords(input) \ OnPixels(input) :
          /\ get_pixel(out, c[1], c[2]) = 255
          /\ \A d \in OnPixels(input) :
                ((c[1] - d[1]) * (c[1] - d[1]) + (c[2] - d[2]) * (c[2] - d[2]))
                    * call.r[2] * call.r[2] >= call.r[1] * call.r[1]
          /\ get_pixel(out, e[1], e[2]) = 0

\* C8: dilation grows monotonically with the radius: for a binary image and
\* radii r2 >= r1 >= 0, every pixel that is 255 after dilating by r1 is 255
\* after dilating by r2.
C8_DilateMonotone ==
    (call.fn = "dilate_euclidean" /\ call2.fn = "dilate_euclidean" /\ IsBinary(input)) =>
        \A c \in Coords(input) :
            get_pixel(out, c[1], c[2]) = 255 => get_pixel(out2, c[1], c[2]) = 255

\* a binary image dilated by r1 and by a larger r2, the second strictly larger
C8_Witness ==
    /\ call.fn = "dilate_euclidean" /\ call2.fn = "dilate_euclidean" /\ IsBinary(input)
    /\ ~RatLe(call2.r, call.r)
    /\ \E c \in Coords(input) : get_pixel(out, c[1], c[2]) = 0 /\ get_pixel(out2, c[1], c[2]) = 255
    /\ \E c \in Coords(input) : get_pixel(out, c[1], c[2]) = 255 /\ get_pixel(input, c[1], c[2]) = 0

(***************************************************************************)
(* operations_from_options applied to every bounded options record.        *)
(***************************************************************************)
InitOptions ==
    /\ NoHandles
    /\ input \in MaskProcessingOptionsSet
    /\ call = NoCall /\ out = NoValue
    /\ call2 = NoCall /\ out2 = NoValue

CallOperationsFromOptions ==
    /\ call.fn = "none"
    /\ call' = [fn |-> "operations_from_options"]
    /\ out' = operations_from_options(input)
    /\ UNCHANGED <<input, call2, out2, handleVars, heapVars>>

NextOptions == CallOperationsFromOptions

SpecOptions == InitOptions /\ [][NextOptions]_vars

OpRank(op) ==
    CASE op.op = "Blur" -> 1 [] op.op = "Threshold" -> 2
      [] op.op = "Dilate" -> 3 [] op.op = "FillHoles" -> 4

FlagCount(options) ==
    (IF options.blur THEN 1 ELSE 0) + (IF options.binary THEN 1 ELSE 0)
    + (IF options.dilate THEN 1 ELSE 0) + (IF options.fill_holes THEN 1 ELSE 0)

\* C3: operations_from_options returns a subsequence of [Blur{blur_sigma},
\* Threshold{mask_threshold}, Dilate{dilation_radius}, FillHoles{mask_threshold}]
\* in that relative order, with Blur iff blur, Threshold iff binary, Dilate
\* iff dilate, FillHoles iff fill_holes; its length is the number of flags set.
C3_CanonicalOrder ==
    call.fn = "operations_from_options" =>
        /\ \A i, j \in DOMAIN out : i < j => OpRank(out[i]) < OpRank(out[j])
        /\ (\E i \in DOMAIN out : out[i].op = "Blur") <=> input.blur
        /\ (\E i \in DOMAIN out : out[i].op = "Threshold") <=> input.binary
        /\ (\E i \in DOMAIN out : out[i].op = "Dilate") <=> input.dilate
        /\ (\E i \in DOMAIN out : out[i].op = "FillHoles") <=> input.fill_holes
        /\ \A i \in DOMAIN out :
              /\ out[i].op = "Blur" => out[i].sigma = input.blur_sigma
              /\ out[i].op = "Threshold" => out[i].value = input.mask_threshold
              /\ out[i].op = "Dilate" => out[i].radius = input.dilation_radius
              /\ out[i].op = "FillHoles" => out[i].threshold = input.mask_threshold
        /\ Len(out) = FlagCount(input)
        /\ FlagCount(input) = 0 => out = <<>>

\* all four flags set, with non-default parameters: four operations returned
C3_Witness ==
    /\ call.fn = "operations_from_options"
    /\ input.blur /\ input.binary /\ input.dilate /\ input.fill_holes
    /\ input.mask_threshold = 100
    /\ Len(out) = 4

(***************************************************************************)
(* apply_operations applied to every bounded source and operation list.    *)
(***************************************************************************)
ApplyOps == {Blur(<<1, 1>>), Threshold(100), Threshold(120), Dilate(<<1, 1>>), FillHoles(120)}

OperationLists == UNION {[1..n -> ApplyOps] : n \in 0..MaxOps}

InitApply ==
    /\ NoHandles
    /\ input \in GrayImagesOf(DimsUpTo(MaxApplyPixels))
    /\ call = NoCall /\ out = NoValue
    /\ call2 = NoCall /\ out2 = NoValue

CallApplyOperations ==
    /\ call.fn = "none"
    /\ \E operations \in OperationLists :
          /\ call' = [fn |-> "apply_operations", operations |-> operations]
          /\ out' = apply_operations(input, operations)
    /\ UNCHANGED <<input, call2, out2, handleVars, heapVars>>

NextApply == CallApplyOperations

SpecApply == InitApply /\ [][NextApply]_vars

LastOp(operations) == operations[Len(operations)].op

\* C9: apply_operations returns an image with the source's dimensions; when
\* the last operation is Threshold, Dilate or FillHoles every pixel of the
\* result is 0 or 255; the empty sequence returns an image equal to the source.
C9_ApplyOperationsBinary ==
    call.fn = "apply_operations" =>
        /\ SameShape(out, input)
        /\ call.operations = <<>> => out = input
        /\ (/\ call.operations # <<>>
            /\ LastOp(call.operations) \in {"Threshold", "Dilate", "FillHoles"})
              => IsBinary(out)

\* a non-binary source blurred and then thresholded: the result is binary,
\* with pixels of both values
C9_Witness ==
    /\ call.fn = "apply_operations"
    /\ ~IsBinary(input)
    /\ Len(call.operations) = 2
    /\ call.operations[1].op = "Blur" /\ call.operations[2].op = "Threshold"
    /\ ~IsBinary(gaussian_blur_f32(input, call.operations[1].sigma))
    /\ \E i, j \in DOMAIN out.px : out.px[i] = 0 /\ out.px[j] = 255

(***************************************************************************)
(* compose_foreground applied to every bounded pair of images.             *)
(***************************************************************************)
InitForeground ==
    /\ NoHandles
    /\ input \in [rgb : RgbImages, alpha : AlphaMattes]
    /\ call = NoCall /\ out = NoValue
    /\ call2 = NoCall /\ out2 = NoValue

CallComposeForeground ==
    /\ call.fn = "none"
    /\ call' = [fn |-> "compose_foreground"]
    /\ out' = compose_foreground(input.rgb, input.alpha)
    /\ UNCHANGED <<input, call2, out2, handleVars, heapVars>>

NextForeground == CallComposeForeground

SpecForeground == InitForeground /\ [][NextForeground]_vars

\* C10: compose_foreground returns Err(AlphaMismatch{expected: rgb dimensions,
\* found: alpha dimensions}) exactly when the two dimension pairs differ;
\* otherwise an RGBA image of the same dimensions whose pixel at every
\* position is (R, G, B of rgb, alpha value) at that position.
C10_ComposeForeground ==
    call.fn = "compose_foreground" =>
        LET rgb == input.rgb
            alpha == input.alpha
        IN  /\ ~out.ok <=> (rgb.w # alpha.w \/ rgb.h # alpha.h)
            /\ ~out.ok =>
                  /\ out.error.kind = "AlphaMismatch"
                  /\ out.error.expected = <<rgb.w, rgb.h>>
                  /\ out.error.found = <<alpha.w, alpha.h>>
            /\ out.ok =>
                  /\ out.value.w = rgb.w /\ out.value.h = rgb.h
                  /\ Len(out.value.px) = rgb.w * rgb.h
                  /\ \A c \in Coords(rgb) :
                        get_pixel(out.value, c[1], c[2]) =
                            get_pixel(rgb, c[1], c[2]) \o <<get_pixel(alpha, c[1], c[2])>>

\* the alpha matte has the rgb image's width but is taller: an error that
\* names both sizes
C10_Witness ==
    /\ call.fn = "compose_foreground"
    /\ input.rgb.w = input.alpha.w /\ input.rgb.h < input.alpha.h
    /\ ~out.ok

(***************************************************************************)
(* The handles of one inferenced image: matte(), the builder calls and     *)
(* processed().                                                            *)
(***************************************************************************)
RgbFor(gray) == [w |-> gray.w, h |-> gray.h, px |-> [i \in DOMAIN gray.px |-> <<10, 20, 30>>]]

\* the default options an Outline was configured with
StoredDefaults ==
    {DefaultOptions,
     [DefaultOptions EXCEPT !.binary = TRUE, !.mask_threshold = 100, !.fill_holes = TRUE]}

\* the options passed to processed(Some(custom))
CustomOptions ==
    {[DefaultOptions EXCEPT !.blur = TRUE, !.blur_sigma = <<2, 1>>, !.binary = TRUE],
     [DefaultOptions EXCEPT !.dilate = TRUE, !.dilation_radius = <<1, 1>>]}

ProcessedArgs == {None} \cup {Some(custom) : custom \in CustomOptions}

Init ==
    /\ NoFunction
    /\ \E raw_matte \in RawMattes, default_mask_processing \in StoredDefaults :
          inferenced = InferencedMatte_new(RgbFor(raw_matte), raw_matte, default_mask_processing)
    /\ handle = NoHandle
    /\ processedCall = NoProcessedCall
    /\ ncalls = 0
    /\ NoHeap

Called == ncalls < MaxCalls /\ ncalls' = ncalls + 1

InferencedMatte_matte ==
    /\ Called
    /\ handle' = MatteHandle(inferenced.rgb_image, inferenced.raw_matte,
                             inferenced.default_mask_processing, <<>>)
    /\ UNCHANGED <<inferenced, processedCall, fnVars, heapVars>>

\* lib.rs pushes MaskOperation::FillHoles without a threshold: the threshold
\* is the stored mask_threshold or the fixed 128
BuilderFillHoles(h) == {FillHoles(h.default_mask_processing.mask_threshold), FillHoles(128)}

MatteHandle_blur ==
    /\ handle.kind = "MatteHandle"
    /\ Called
    /\ \E op \in {Blur(sigma) : sigma \in BuilderSigmas} : handle' = Push(handle, op)
    /\ UNCHANGED <<inferenced, processedCall, fnVars, heapVars>>

MatteHandle_threshold ==
    /\ handle.kind = "MatteHandle"
    /\ Called
    /\ \E op \in {Threshold(value) : value \in BuilderThresholds} : handle' = Push(handle, op)
    /\ UNCHANGED <<inferenced, processedCall, fnVars, heapVars>>

MatteHandle_dilate ==
    /\ handle.kind = "MatteHandle"
    /\ Called
    /\ \E op \in {Dilate(radius) : radius \in BuilderRadii} : handle' = Push(handle, op)
    /\ UNCHANGED <<inferenced, processedCall, fnVars, heapVars>>

MatteHandle_fill_holes ==
    /\ handle.kind = "MatteHandle"
    /\ Called
    /\ \E op \in BuilderFillHoles(handle) : handle' = Push(handle, op)
    /\ UNCHANGED <<inferenced, processedCall, fnVars, heapVars>>

\* processed(self, options): consumes the handle and returns a new MaskHandle
MatteHandle_processed ==
    /\ handle.kind = "MatteHandle"
    /\ Called
    /\ \E options \in ProcessedArgs :
          LET ops == ProcessedOps(handle.operations, options, handle.default_mask_processing)
              mask == apply_operations(handle.raw_matte, ops)
              returned == MaskHandle_new(handle.rgb_image, mask, handle.default_mask_processing)
          IN  /\ handle' = returned
              /\ processedCall' = [called |-> TRUE, self |-> handle, options |-> options,
                                   ops |-> ops, returned |-> returned]
    /\ UNCHANGED <<inferenced, fnVars, heapVars>>

MaskHandle_blur ==
    /\ handle.kind = "MaskHandle"
    /\ Called
    /\ \E op \in {Blur(sigma) : sigma \in BuilderSigmas} : handle' = Push(handle, op)
    /\ UNCHANGED <<inferenced, processedCall, fnVars, heapVars>>

MaskHandle_threshold ==
    /\ handle.kind = "MaskHandle"
    /\ Called
    /\ \E op \in {Threshold(value) : value \in BuilderThresholds} : handle' = Push(handle, op)
    /\ UNCHANGED <<inferenced, processedCall, fnVars, heapVars>>

MaskHandle_dilate ==
    /\ handle.kind = "MaskHandle"
    /\ Called
    /\ \E op \in {Dilate(radius) : radius \in BuilderRadii} : handle' = Push(handle, op)
    /\ UNCHANGED <<inferenced, processedCall, fnVars, heapVars>>

MaskHandle_fill_holes ==
    /\ handle.kind = "MaskHandle"
    /\ Called
    /\ \E op \in BuilderFillHoles(handle) : handle' = Push(handle, op)
    /\ UNCHANGED <<inferenced, processedCall, fnVars, heapVars>>

\* processed(self, options): consumes the handle and returns a new MaskHandle
MaskHandle_processed ==
    /\ handle.kind = "MaskHandle"
    /\ Called
    /\ \E options \in ProcessedArgs :
          LET ops == ProcessedOps(handle.operations, options, handle.default_mask_processing)
              mask == apply_operations(handle.mask, ops)
              returned == MaskHandle_new(handle.rgb_image, mask, handle.default_mask_processing)
          IN  /\ handle' = returned
              /\ processedCall' = [called |-> TRUE, self |-> handle, options |-> options,
                                   ops |-> ops, returned |-> returned]
    /\ UNCHANGED <<inferenced, fnVars, heapVars>>

Next ==
    \/ InferencedMatte_matte
    \/ MatteHandle_blur
    \/ MatteHandle_threshold
    \/ MatteHandle_dilate
    \/ MatteHandle_fill_holes
    \/ MatteHandle_processed
    \/ MaskHandle_blur
    \/ MaskHandle_threshold
    \/ MaskHandle_dilate
    \/ MaskHandle_fill_holes
    \/ MaskHandle_processed

Spec == Init /\ [][Next]_vars

\* C1: with explicit override options Some(custom), the operations applied
\* are exactly the canonical sequence derived from custom: the queued
\* operations and the stored defaults contribute nothing.
C1_OverrideReplacesQueue ==
    (processedCall.called /\ processedCall.options.some) =>
        processedCall.ops = operations_from_options(processedCall.options.value)

\* C1 as amended: with Some(custom), the operations applied are the queued
\* operations, in the order of the builder calls, followed by the canonical
\* sequence derived from custom; the stored defaults contribute nothing.
C1_OverrideExtendsQueue ==
    (processedCall.called /\ processedCall.options.some) =>
        /\ processedCall.ops =
              processedCall.self.operations
                  \o operations_from_options(processedCall.options.value)
        /\ processedCall.returned.mask =
              apply_operations(HandleImage(processedCall.self), processedCall.ops)

\* processed(Some(custom)) on a handle with queued operations whose stored
\* defaults enable operations of their own
C1_Witness ==
    /\ processedCall.called /\ processedCall.options.some
    /\ processedCall.self.operations # <<>>
    /\ operations_from_options(processedCall.self.default_mask_processing) # <<>>
    /\ operations_from_options(processedCall.options.value) # <<>>

\* C2: processed(None) applies the canonical sequence of the stored defaults
\* iff no operation was queued; with queued operations it applies exactly
\* those, in the order of the builder calls, and nothing from the defaults.
C2_DefaultsOnlyWhenQueueEmpty ==
    (processedCall.called /\ ~processedCall.options.some) =>
        LET self == processedCall.self
        IN  /\ self.operations = <<>> =>
                  processedCall.ops = operations_from_options(self.default_mask_processing)
            /\ self.operations # <<>> => processedCall.ops = self.operations
            /\ processedCall.returned.mask =
                  apply_operations(HandleImage(self), processedCall.ops)

\* processed(None) on a handle with two queued operations whose stored
\* defaults enable operations of their own
C2_Witness ==
    /\ processedCall.called /\ ~processedCall.options.some
    /\ Len(processedCall.self.operations) = 2
    /\ processedCall.self.operations[1] # processedCall.self.operations[2]
    /\ operations_from_options(processedCall.self.default_mask_processing) # <<>>

(***************************************************************************)
(* Mask-derived layers (src/src/layer.rs).  A MaskAlphaMode is a record    *)
(* tagged by mode; the f32 factor of Scale is an exact rational <<n, d>>.  *)
(***************************************************************************)
\* largest mask given to create_rgba_layer_from_mask
MaxLayerPixels == 2

MaskLevels == {0, 1, 128, 255}
\* fill colours [r, g, b, base_alpha]
FillColors == {<<10, 20, 30, 255>>, <<255, 128, 64, 128>>, <<200, 0, 7, 0>>}
ScaleFactors == {<<-1, 1>>, <<0, 1>>, <<1, 2>>, <<3, 2>>}
SolidAlphas == {0, 200}

UseMask == [mode |-> "UseMask"]
Scale(scale) == [mode |-> "Scale", scale |-> scale]
Solid(alpha) == [mode |-> "Solid", alpha |-> alpha]

MaskAlphaModes ==
    {UseMask} \cup {Scale(f) : f \in ScaleFactors} \cup {Solid(s) : s \in SolidAlphas}

MaskFill(color, alpha_mode) == [color |-> color, alpha_mode |-> alpha_mode]

MaskFills == {MaskFill(c, m) : c \in FillColors, m \in MaskAlphaModes}

LayerMasks ==
    UNION {{[w |-> d[1], h |-> d[2], px |-> p] : p \in [1..(d[1] * d[2]) -> MaskLevels]} :
           d \in DimsUpTo(MaxLayerPixels)}

\* f32::max
f32_max(a, b) == IF RatLe(a, b) THEN b ELSE a
\* f32::round of a value that is not negative: halves go away from zero
f32_round(a) == (2 * a[1] + a[2]) \div (2 * a[2])
\* `as u8` and `as u16` of an integer
as_u8(v) == v % 256
as_u16(v) == v % 65536

resolve_mask_alpha(mask_value, mode) ==
    CASE mode.mode = "UseMask" -> mask_value
      [] mode.mode = "Scale" ->
            LET m == f32_max(mode.scale, <<0, 1>>)
                scaled == <<mask_value * m[1], m[2]>>
            IN  as_u8(Clamp(f32_round(scaled), 0, 255))
      [] mode.mode = "Solid" -> IF mask_value > 0 THEN mode.alpha ELSE 0

create_rgba_layer_from_mask_rounded(mask, fill) ==
    [w |-> mask.w, h |-> mask.h,
     px |-> [i \in DOMAIN mask.px |->
                LET mask_alpha == resolve_mask_alpha(mask.px[i], fill.alpha_mode)
                    alpha == (2 * mask_alpha * fill.color[4] + 255) \div 510
                IN  <<fill.color[1], fill.color[2], fill.color[3], alpha>>]]

create_rgba_layer_from_mask(mask, fill) ==
    [w |-> mask.w, h |-> mask.h,
     px |-> [i \in DOMAIN mask.px |->
                LET mask_alpha == resolve_mask_alpha(mask.px[i], fill.alpha_mode)
                    alpha == as_u8((as_u16(mask_alpha) * as_u16(fill.color[4])) \div 255)
                IN  <<fill.color[1], fill.color[2], fill.color[3], alpha>>]]

(***************************************************************************)
(* create_rgba_layer_from_mask applied to every bounded mask and fill.     *)
(***************************************************************************)
InitLayer ==
    /\ NoHandles
    /\ input \in [mask : LayerMasks, fill : MaskFills]
    /\ call = NoCall /\ out = NoValue
    /\ call2 = NoCall /\ out2 = NoValue

CallCreateRgbaLayerFromMask ==
    /\ call.fn = "none"
    /\ call' = [fn |-> "create_rgba_layer_from_mask"]
    /\ out' = create_rgba_layer_from_mask(input.mask, input.fill)
    /\ UNCHANGED <<input, call2, out2, handleVars, heapVars>>

NextLayer == CallCreateRgbaLayerFromMask

SpecLayer == InitLayer /\ [][NextLayer]_vars

\* the claimed resolve(v, mode), with v * max(f, 0) clamped to [0, 255] as a
\* rational before it is rounded
Resolve(v, mode) ==
    IF mode.mode = "UseMask" THEN v
    ELSE IF mode.mode = "Solid" THEN (IF v > 0 THEN mode.alpha ELSE 0)
    ELSE LET f == mode.scale
             x == IF f[1] <= 0 THEN <<0, 1>> ELSE <<v * f[1], f[2]>>
             clamped == IF x[1] >= 255 * x[2] THEN <<255, 1>> ELSE x
             twice == 2 * clamped[1]
         IN  CHOOSE n \in 0..255 : /\ (2 * n - 1) * clamped[2] <= twice
                                   /\ twice < (2 * n + 1) * clamped[2]

\* C11: at every pixel create_rgba_layer_from_mask writes the fill's (r, g, b)
\* and the alpha floor(resolve(v, mode) * a / 255), v being the mask value
\* there and a the fill's alpha; the output has the mask's dimensions.
C11_LayerFromMask ==
    call.fn = "create_rgba_layer_from_mask" =>
        LET mask == input.mask
            color == input.fill.color
        IN  /\ dimensions(out) = dimensions(mask)
            /\ Len(out.px) = mask.w * mask.h
            /\ \A c \in Coords(mask) :
                  LET px == get_pixel(out, c[1], c[2])
                      r == Resolve(get_pixel(mask, c[1], c[2]), input.fill.alpha_mode)
                  IN  /\ <<px[1], px[2], px[3]>> = <<color[1], color[2], color[3]>>
                      /\ px[4] * 255 <= r * color[4]
                      /\ r * color[4] < (px[4] + 1) * 255

\* a mask holding 1 and 128 under Scale(1/2) and a half-opaque fill: 1 * 0.5
\* rounds up to 1, and 1 * 128 / 255 floors to 0
C11_Witness ==
    /\ call.fn = "create_rgba_layer_from_mask"
    /\ input.fill.alpha_mode = Scale(<<1, 2>>)
    /\ input.fill.color[4] = 128
    /\ input.mask.px = <<1, 128>>
    /\ out.px[1][4] = 0 /\ out.px[2][4] = 32

(***************************************************************************)
(* alpha_composite (src/src/layer.rs).  The f32 quantities are kept as     *)
(* exact fractions: with N = 255 * fg + bg * (255 - fg) for the alpha      *)
(* bytes fg and bg, out_a is N / 255^2, fg_weight is 255 * fg / N and      *)
(* bg_weight is bg * (255 - fg) / N.  Where an alpha byte is 0 or 255 the  *)
(* f32 operations of the code are exact (x * 1.0, x + 0.0, x / x, 0.0 / x) *)
(* and the fractions are the values the code computes; for the alphas in   *)
(* between the fractions ignore the rounding of the f32 intermediates.     *)
(***************************************************************************)
\* largest image given to alpha_composite
MaxCompositePixels == 2

RgbaPixels == {c \o <<a>> : c \in Colors, a \in AlphaLevels}

RgbaImages ==
    UNION {{[w |-> d[1], h |-> d[2], px |-> p] : p \in [1..(d[1] * d[2]) -> RgbaPixels]} :
           d \in DimsUpTo(MaxCompositePixels)}

\* one iteration of the pixel loop
composite_pixel(bg_px, fg_px) ==
    LET fg == fg_px[4]
        bg == bg_px[4]
        fg_part == 255 * fg
        bg_part == bg * (255 - fg)
        out_a == fg_part + bg_part
        blended(c) == <<fg_px[c] * fg_part + bg_px[c] * bg_part, out_a>>
        channel(c) == IF out_a > 0 THEN as_u8(Clamp(f32_round(blended(c)), 0, 255)) ELSE 0
    IN  <<channel(1), channel(2), channel(3),
          as_u8(Clamp(f32_round(<<out_a, 255>>), 0, 255))>>

alpha_composite_under(bottom, top) ==
    [w |-> bottom.w, h |-> bottom.h,
     px |-> [i \in DOMAIN bottom.px |-> composite_pixel(top.px[i], bottom.px[i])]]

alpha_composite(bottom, top) ==
    [w |-> bottom.w, h |-> bottom.h,
     px |-> [i \in DOMAIN bottom.px |-> composite_pixel(bottom.px[i], top.px[i])]]

(***************************************************************************)
(* alpha_composite applied to every bounded pair of images of the same     *)
(* dimensions, which is what its debug assertion demands of a caller.      *)
(***************************************************************************)
InitComposite ==
    /\ NoHandles
    /\ input \in {p \in [bottom : RgbaImages, top : RgbaImages] :
                    dimensions(p.bottom) = dimensions(p.top)}
    /\ call = NoCall /\ out = NoValue
    /\ call2 = NoCall /\ out2 = NoValue

CallAlphaComposite ==
    /\ call.fn = "none"
    /\ call' = [fn |-> "alpha_composite"]
    /\ out' = alpha_composite(input.bottom, input.top)
    /\ UNCHANGED <<input, call2, out2, handleVars, heapVars>>

NextComposite == CallAlphaComposite

SpecComposite == InitComposite /\ [][NextComposite]_vars

\* C12: per pixel of alpha_composite(bottom, top): a top alpha of 0 over a
\* bottom alpha above 0 gives the bottom pixel in all four channels; a top
\* alpha of 255 gives the top pixel's R, G, B with alpha 255 whatever the
\* bottom pixel; two alphas of 0 give (0, 0, 0, 0).
C12_AlphaCompositeEdges ==
    call.fn = "alpha_composite" =>
        /\ SameShape(out, input.bottom)
        /\ \A c \in Coords(input.bottom) :
              LET b == get_pixel(input.bottom, c[1], c[2])
                  t == get_pixel(input.top, c[1], c[2])
                  o == get_pixel(out, c[1], c[2])
              IN  /\ (t[4] = 0 /\ b[4] > 0) => o = b
                  /\ t[4] = 255 => o = <<t[1], t[2], t[3], 255>>
                  /\ (t[4] = 0 /\ b[4] = 0) => o = <<0, 0, 0, 0>>

\* two pixels: an opaque top over a half-transparent bottom of another colour
\* beside a transparent top over that bottom
C12_Witness ==
    /\ call.fn = "alpha_composite"
    /\ Len(input.top.px) = 2
    /\ input.top.px[1][4] = 255 /\ input.bottom.px[1][4] = 128
    /\ input.top.px[1][1] # input.bottom.px[1][1]
    /\ input.top.px[2][4] = 0 /\ input.bottom.px[2][4] = 128
    /\ input.top.px[2][1] # input.bottom.px[2][1]
    /\ out.px = <<input.top.px[1], input.bottom.px[2]>>

(***************************************************************************)
(* overlay_foreground_on_layer and overlay_image_on_mask                   *)
(* (src/src/layer.rs).  `?` on compose_foreground returns its error.       *)
(***************************************************************************)
\* largest image given to the overlay functions
MaxOverlayPixels == 2

OverlayLevels == {0, 255}
OverlayFills == {MaskFill(<<10, 20, 30, 255>>, UseMask), MaskFill(<<255, 128, 64, 128>>, Solid(200))}

OverlayMasks ==
    UNION {{[w |-> d[1], h |-> d[2], px |-> p] : p \in [1..(d[1] * d[2]) -> OverlayLevels]} :
           d \in DimsUpTo(MaxOverlayPixels)}

\* one image of every size
OverlayRgbImages ==
    {[w |-> d[1], h |-> d[2], px |-> [i \in 1..(d[1] * d[2]) |-> <<255, 128, 64>>]] :
       d \in DimsUpTo(MaxOverlayPixels)}

OverlayRgbaImages ==
    {[w |-> d[1], h |-> d[2], px |-> [i \in 1..(d[1] * d[2]) |-> <<255, 128, 64, 128>>]] :
       d \in DimsUpTo(MaxOverlayPixels)}

overlay_foreground_on_layer_fg_first(rgb, foreground_mask, layer_mask, fill) ==
    LET expected == dimensions(rgb)
        foreground == compose_foreground(rgb, foreground_mask)
    IN  IF ~foreground.ok THEN foreground
        ELSE IF dimensions(layer_mask) # expected
             THEN Err(AlphaMismatch(expected, dimensions(layer_mask)))
             ELSE Ok(alpha_composite(create_rgba_layer_from_mask(layer_mask, fill),
                                     foreground.value))

overlay_foreground_on_layer(rgb, foreground_mask, layer_mask, fill) ==
    LET expected == dimensions(rgb)
    IN  IF dimensions(layer_mask) # expected
        THEN Err(AlphaMismatch(expected, dimensions(layer_mask)))
        ELSE LET base_layer == create_rgba_layer_from_mask(layer_mask, fill)
                 foreground == compose_foreground(rgb, foreground_mask)
             IN  IF ~foreground.ok THEN foreground
                 ELSE IF dimensions(foreground.value) # dimensions(base_layer)
                      THEN Err(AlphaMismatch(dimensions(base_layer),
                                             dimensions(foreground.value)))
                      ELSE Ok(alpha_composite(base_layer, foreground.value))

overlay_image_on_mask(layer_mask, fill, overlay) ==
    LET expected == dimensions(overlay)
    IN  IF dimensions(layer_mask) # expected
        THEN Err(AlphaMismatch(expected, dimensions(layer_mask)))
        ELSE Ok(alpha_composite(create_rgba_layer_from_mask(layer_mask, fill), overlay))

(***************************************************************************)
(* The two overlay functions applied to every bounded combination of       *)
(* images.                                                                 *)
(***************************************************************************)
InitOverlay ==
    /\ NoHandles
    /\ input \in [rgb : OverlayRgbImages, foreground_mask : OverlayMasks,
                  layer_mask : OverlayMasks, fill : OverlayFills,
                  overlay : OverlayRgbaImages]
    /\ call = NoCall /\ out = NoValue
    /\ call2 = NoCall /\ out2 = NoValue

CallOverlayForegroundOnLayer ==
    /\ call.fn = "none"
    /\ call' = [fn |-> "overlay_foreground_on_layer"]
    /\ out' = overlay_foreground_on_layer(input.rgb, input.foreground_mask,
                                          input.layer_mask, input.fill)
    /\ UNCHANGED <<input, call2, out2, handleVars, heapVars>>

CallOverlayImageOnMask ==
    /\ call2.fn = "none"
    /\ call2' = [fn |-> "overlay_image_on_mask"]
    /\ out2' = overlay_image_on_mask(input.layer_mask, input.fill, input.overlay)
    /\ UNCHANGED <<input, call, out, handleVars, heapVars>>

NextOverlay ==
    \/ CallOverlayForegroundOnLayer
    \/ CallOverlayImageOnMask

SpecOverlay == InitOverlay /\ [][NextOverlay]_vars

IsAlphaMismatch(result, expected, found) ==
    /\ ~result.ok
    /\ DOMAIN result = {"ok", "error"}
    /\ result.error = [kind |-> "AlphaMismatch", expected |-> expected, found |-> found]

\* C13: overlay_foreground_on_layer returns Ok exactly when rgb,
\* foreground_mask and layer_mask have the same dimensions; a layer_mask
\* mismatch is reported first, as AlphaMismatch{expected: rgb dimensions,
\* found: layer_mask dimensions}, otherwise a foreground_mask mismatch as
\* AlphaMismatch{expected: rgb dimensions, found: foreground_mask dimensions}.
\* overlay_image_on_mask returns AlphaMismatch{expected: overlay dimensions,
\* found: layer_mask dimensions} exactly when those differ.  An error carries
\* no image, and an Ok image has the dimensions every input had.
C13_OverlayDimensionChecks ==
    LET rgb == <<input.rgb.w, input.rgb.h>>
        fg == <<input.foreground_mask.w, input.foreground_mask.h>>
        layer == <<input.layer_mask.w, input.layer_mask.h>>
        overlay == <<input.overlay.w, input.overlay.h>>
    IN  /\ call.fn = "overlay_foreground_on_layer" =>
              /\ out.ok <=> (fg = rgb /\ layer = rgb)
              /\ layer # rgb => IsAlphaMismatch(out, rgb, layer)
              /\ (layer = rgb /\ fg # rgb) => IsAlphaMismatch(out, rgb, fg)
              /\ out.ok => /\ DOMAIN out = {"ok", "value"}
                           /\ <<out.value.w, out.value.h>> = rgb
                           /\ Len(out.value.px) = rgb[1] * rgb[2]
        /\ call2.fn = "overlay_image_on_mask" =>
              /\ ~out2.ok <=> layer # overlay
              /\ layer # overlay => IsAlphaMismatch(out2, overlay, layer)
              /\ out2.ok => /\ DOMAIN out2 = {"ok", "value"}
                            /\ <<out2.value.w, out2.value.h>> = overlay
                            /\ Len(out2.value.px) = overlay[1] * overlay[2]

\* both masks differ from the rgb image, each in its own way, and the layer
\* mask differs from the overlay: the first call names the layer mask
C13_Witness ==
    /\ call.fn = "overlay_foreground_on_layer" /\ call2.fn = "overlay_image_on_mask"
    /\ dimensions(input.layer_mask) # dimensions(input.rgb)
    /\ dimensions(input.foreground_mask) # dimensions(input.rgb)
    /\ dimensions(input.foreground_mask) # dimensions(input.layer_mask)
    /\ dimensions(input.overlay) = dimensions(input.rgb)
    /\ ~out.ok /\ out.error.found = dimensions(input.layer_mask)
    /\ ~out2.ok /\ out2.error.expected = dimensions(input.overlay)

(***************************************************************************)
(* Command-line mask arguments (src/src/cli.rs) and the helpers of the     *)
(* commands (src/src/commands/utils.rs).  The three source enums           *)
(* AlphaFromArg, MaskSourceArg and MaskExportSource have the same variants *)
(* and are the strings "Auto", "Raw" and "Processed".                      *)
(***************************************************************************)
BinaryOption == {"Enabled", "Disabled", "Auto"}
AlphaFromArg == {"Raw", "Processed", "Auto"}
MaskSourceArg == {"Raw", "Processed", "Auto"}
MaskExportSource == {"Auto", "Raw", "Processed"}

ArgSigmas == {<<2, 1>>, <<6, 1>>}
ArgRadii == {<<1, 1>>, <<5, 1>>}
ArgThresholds == {100, 120}

Options(values) == {None} \cup {Some(v) : v \in values}

\* every MaskProcessingArgs the parser can build from the values above
MaskProcessingArgs ==
    [blur : Options(ArgSigmas), mask_threshold : ArgThresholds, binary : BinaryOption,
     dilate : Options(ArgRadii), fill_holes : BOOLEAN]

is_some(opt) == opt.some
unwrap_or(opt, default) == IF opt.some THEN opt.value ELSE default

\* binary taken from an explicit --binary enabled only
MaskProcessingOptions_from_explicit_binary(args) ==
    [binary |-> args.binary = "Enabled",
     blur |-> is_some(args.blur),
     blur_sigma |-> unwrap_or(args.blur, DefaultOptions.blur_sigma),
     mask_threshold |-> args.mask_threshold,
     dilate |-> is_some(args.dilate),
     dilation_radius |-> unwrap_or(args.dilate, DefaultOptions.dilation_radius),
     fill_holes |-> args.fill_holes]

\* impl From<&MaskProcessingArgs> for MaskProcessingOptions
MaskProcessingOptions_from(args) ==
    LET defaults == DefaultOptions
    IN  [binary |-> \/ (args.binary = "Auto" /\ (is_some(args.dilate) \/ args.fill_holes))
                    \/ args.binary = "Enabled",
         blur |-> is_some(args.blur),
         blur_sigma |-> unwrap_or(args.blur, defaults.blur_sigma),
         mask_threshold |-> args.mask_threshold,
         dilate |-> is_some(args.dilate),
         dilation_radius |-> unwrap_or(args.dilate, defaults.dilation_radius),
         fill_holes |-> args.fill_holes]

\* MaskProcessingOptions != MaskProcessingOptions: the comparison of the
\* seven fields one by one
MaskProcessingOptions_ne(a, b) ==
    \/ a.binary # b.binary
    \/ a.blur # b.blur
    \/ a.blur_sigma # b.blur_sigma
    \/ a.mask_threshold # b.mask_threshold
    \/ a.dilate # b.dilate
    \/ a.dilation_radius # b.dilation_radius
    \/ a.fill_holes # b.fill_holes

processing_requested_flags_only(args) ==
    LET derived == MaskProcessingOptions_from(args)
    IN  derived.binary \/ derived.blur \/ derived.dilate \/ derived.fill_holes

processing_requested(args) ==
    LET derived == MaskProcessingOptions_from(args)
    IN  MaskProcessingOptions_ne(derived, DefaultOptions)

has_soft_conflict_not_enabled(args) ==
    args.binary # "Enabled" /\ (is_some(args.dilate) \/ args.fill_holes)

has_soft_conflict(args) ==
    args.binary = "Disabled" /\ (is_some(args.dilate) \/ args.fill_holes)

resolve_alpha_source(requested, processing_requested_) ==
    IF requested = "Auto"
    THEN (IF processing_requested_ THEN "Processed" ELSE "Raw")
    ELSE requested

resolve_mask_source_arg(requested, processing_requested_) ==
    IF requested = "Auto"
    THEN (IF processing_requested_ THEN "Processed" ELSE "Raw")
    ELSE requested

resolve_mask_export_source_always_processed(requested, processing_requested_) ==
    IF requested = "Auto" THEN "Processed" ELSE requested

resolve_mask_export_source(requested, processing_requested_) ==
    IF requested = "Auto"
    THEN (IF processing_requested_ THEN "Processed" ELSE "Raw")
    ELSE requested

(***************************************************************************)
(* The three resolve functions applied to every source request, with the   *)
(* processing_requested of every bounded argument record.                  *)
(***************************************************************************)
InitResolve ==
    /\ NoHandles
    /\ input \in [requested : {"Auto", "Raw", "Processed"}, args : MaskProcessingArgs]
    /\ call = NoCall /\ out = NoValue
    /\ call2 = NoCall /\ out2 = NoValue

CallResolveAlphaSource ==
    /\ call.fn = "none"
    /\ input.requested \in AlphaFromArg
    /\ LET requested_ == processing_requested(input.args)
       IN  /\ call' = [fn |-> "resolve_alpha_source", processing_requested |-> requested_]
           /\ out' = resolve_alpha_source(input.requested, requested_)
    /\ UNCHANGED <<input, call2, out2, handleVars, heapVars>>

CallResolveMaskSourceArg ==
    /\ call.fn = "none"
    /\ input.requested \in MaskSourceArg
    /\ LET requested_ == processing_requested(input.args)
       IN  /\ call' = [fn |-> "resolve_mask_source_arg", processing_requested |-> requested_]
           /\ out' = resolve_mask_source_arg(input.requested, requested_)
    /\ UNCHANGED <<input, call2, out2, handleVars, heapVars>>

CallResolveMaskExportSource ==
    /\ call.fn = "none"
    /\ input.requested \in MaskExportSource
    /\ LET requested_ == processing_requested(input.args)
       IN  /\ call' = [fn |-> "resolve_mask_export_source", processing_requested |-> requested_]
           /\ out' = resolve_mask_export_source(input.requested, requested_)
    /\ UNCHANGED <<input, call2, out2, handleVars, heapVars>>

NextResolve ==
    \/ CallResolveAlphaSource
    \/ CallResolveMaskSourceArg
    \/ CallResolveMaskExportSource

SpecResolve == InitResolve /\ [][NextResolve]_vars

ResolveFunctions ==
    {"resolve_alpha_source", "resolve_mask_source_arg", "resolve_mask_export_source"}

\* C14: each of resolve_alpha_source, resolve_mask_source_arg and
\* resolve_mask_export_source maps Auto to Processed when processing was
\* requested and to Raw when it was not, returns an explicit Raw or Processed
\* unchanged either way, and so never returns Auto.
C14_ResolveAuto ==
    call.fn \in ResolveFunctions =>
        /\ (input.requested = "Auto" /\ call.processing_requested) => out = "Processed"
        /\ (input.requested = "Auto" /\ ~call.processing_requested) => out = "Raw"
        /\ input.requested # "Auto" => out = input.requested
        /\ out # "Auto"

\* resolve_mask_export_source(Auto, false): only the threshold-free default
\* arguments with `--binary disabled`
C14_Witness ==
    /\ call.fn = "resolve_mask_export_source"
    /\ input.requested = "Auto"
    /\ input.args.binary = "Disabled"
    /\ ~call.processing_requested
    /\ out = "Raw"

(***************************************************************************)
(* The compose command (src/src/commands/compose.rs).  A command is a      *)
(* record of its parsed arguments; an export argument is TRUE when it was  *)
(* given.  for_image is the session of an image whose matte the model      *)
(* inferred, and every save succeeds.  The outcome of a run records the    *)
(* resolved sources, the warnings written to stderr and the images saved,  *)
(* in order, next to the returned result.                                  *)
(***************************************************************************)
ComposeExports ==
    {[export_foreground |-> FALSE, export_matte |-> FALSE, export_mask |-> FALSE,
      export_bg_layer |-> FALSE],
     [export_foreground |-> FALSE, export_matte |-> FALSE, export_mask |-> TRUE,
      export_bg_layer |-> FALSE],
     [export_foreground |-> TRUE, export_matte |-> TRUE, export_mask |-> TRUE,
      export_bg_layer |-> TRUE]}

ComposeFill == MaskFill(<<255, 128, 64, 128>>, UseMask)

ComposeCommand ==
    [fg_mask_source : MaskSourceArg, bg_mask_source : MaskSourceArg,
     mask_processing : MaskProcessingArgs, exports : ComposeExports,
     raw_matte : RawMattes]

\* build_outline(..).for_image(..): the defaults of the session are the
\* options derived from the command's mask arguments
for_image(raw_matte, mask_args) ==
    InferencedMatte_new(RgbFor(raw_matte), raw_matte, MaskProcessingOptions_from(mask_args))

\* MatteHandle::processed(None) on a freshly made matte handle
matte_processed(session) ==
    LET ops == ProcessedOps(<<>>, None, session.default_mask_processing)
    IN  MaskHandle_new(session.rgb_image, apply_operations(session.raw_matte, ops),
                       session.default_mask_processing)

SoftConflictWarning(context) == <<"Warning: --no-binary", context>>

warn_if_soft_conflict(args, context) ==
    IF has_soft_conflict(args) THEN <<SoftConflictWarning(context)>> ELSE <<>>

Saved(file, image) == [file |-> file, image |-> image]
SavedIf(cond, file, image) == IF cond THEN <<Saved(file, image)>> ELSE <<>>

compose_fg_src_like_bg(cmd) ==
    resolve_mask_source_arg(cmd.fg_mask_source, processing_requested(cmd.mask_processing))

compose_fg_src(cmd) ==
    IF cmd.fg_mask_source = "Auto" THEN "Raw" ELSE cmd.fg_mask_source

compose_run(cmd) ==
    LET session == for_image(cmd.raw_matte, cmd.mask_processing)
        proc_requested == processing_requested(cmd.mask_processing)
        fg_src == compose_fg_src(cmd)
        bg_src == resolve_mask_source_arg(cmd.bg_mask_source, proc_requested)
        warnings == IF bg_src = "Processed"
                    THEN warn_if_soft_conflict(cmd.mask_processing, "background layer")
                    ELSE <<>>
        needs_processed ==
            fg_src = "Processed" \/ bg_src = "Processed" \/ cmd.exports.export_mask
        processed == IF needs_processed THEN Some(matte_processed(session)) ELSE None
        foreground == IF fg_src = "Raw"
                      THEN compose_foreground(session.rgb_image, session.raw_matte)
                      ELSE compose_foreground(session.rgb_image, processed.value.mask)
        bg_layer == IF bg_src = "Raw"
                    THEN create_rgba_layer_from_mask(session.raw_matte, ComposeFill)
                    ELSE create_rgba_layer_from_mask(processed.value.mask, ComposeFill)
        outcome(result, saved) ==
            [result |-> result, fg_src |-> fg_src, bg_src |-> bg_src,
             warnings |-> warnings, processed |-> processed, saved |-> saved]
    IN  IF ~foreground.ok THEN outcome(foreground, <<>>)
        ELSE outcome(Ok(<<>>),
                     <<Saved("composite", alpha_composite(bg_layer, foreground.value))>>
                     \o SavedIf(cmd.exports.export_foreground, "foreground", foreground.value)
                     \o SavedIf(cmd.exports.export_matte, "matte", session.raw_matte)
                     \o (IF cmd.exports.export_mask
                         THEN <<Saved("mask", processed.value.mask)>> ELSE <<>>)
                     \o SavedIf(cmd.exports.export_bg_layer, "bg-layer", bg_layer))

InitCompose ==
    /\ NoHandles
    /\ input \in ComposeCommand
    /\ call = NoCall /\ out = NoValue
    /\ call2 = NoCall /\ out2 = NoValue

RunCompose ==
    /\ call.fn = "none"
    /\ call' = [fn |-> "compose::run"]
    /\ out' = compose_run(input)
    /\ UNCHANGED <<input, call2, out2, handleVars, heapVars>>

NextCompose == RunCompose

SpecCompose == InitCompose /\ [][NextCompose]_vars

\* the mask a resolved source selects
SourceMask(src, cmd) ==
    IF src = "Raw" THEN cmd.raw_matte
    ELSE apply_operations(cmd.raw_matte,
                          operations_from_options(MaskProcessingOptions_from(cmd.mask_processing)))

\* C15: in the compose command a foreground mask source of Auto resolves to
\* Raw whether or not mask processing was requested, a background mask source
\* of Auto resolves to Processed if processing was requested and to Raw
\* otherwise, and an explicit Raw or Processed is kept for either; the saved
\* composite is the foreground cut by the one mask over the layer filled from
\* the other.
C15_ComposeAutoAsymmetry ==
    call.fn = "compose::run" =>
        LET requested == processing_requested(input.mask_processing)
            fg == IF input.fg_mask_source = "Auto" THEN "Raw" ELSE input.fg_mask_source
            bg == IF input.bg_mask_source # "Auto" THEN input.bg_mask_source
                  ELSE IF requested THEN "Processed" ELSE "Raw"
        IN  /\ out.fg_src = fg
            /\ out.bg_src = bg
            /\ out.result.ok
            /\ out.saved[1] =
                  Saved("composite",
                        alpha_composite(
                            create_rgba_layer_from_mask(SourceMask(bg, input), ComposeFill),
                            compose_foreground(RgbFor(input.raw_matte),
                                               SourceMask(fg, input)).value))

\* both sources Auto with processing requested: the foreground stays raw, the
\* background is processed, and the two masks differ
C15_Witness ==
    /\ call.fn = "compose::run"
    /\ input.fg_mask_source = "Auto" /\ input.bg_mask_source = "Auto"
    /\ processing_requested(input.mask_processing)
    /\ out.fg_src = "Raw" /\ out.bg_src = "Processed"
    /\ out.processed.some /\ out.processed.value.mask # input.raw_matte

(***************************************************************************)
(* processing_requested and has_soft_conflict applied to every bounded     *)
(* argument record.                                                        *)
(***************************************************************************)
InitMaskArgs ==
    /\ NoHandles
    /\ input \in MaskProcessingArgs
    /\ call = NoCall /\ out = NoValue
    /\ call2 = NoCall /\ out2 = NoValue

CallProcessingRequested ==
    /\ call.fn = "none"
    /\ call' = [fn |-> "processing_requested"]
    /\ out' = processing_requested(input)
    /\ UNCHANGED <<input, call2, out2, handleVars, heapVars>>

CallHasSoftConflict ==
    /\ call2.fn = "none"
    /\ call2' = [fn |-> "has_soft_conflict"]
    /\ out2' = has_soft_conflict(input)
    /\ UNCHANGED <<input, call, out, handleVars, heapVars>>

NextMaskArgs ==
    \/ CallProcessingRequested
    \/ CallHasSoftConflict

SpecMaskArgs == InitMaskArgs /\ [][NextMaskArgs]_vars

OptionFields ==
    {"binary", "blur", "blur_sigma", "mask_threshold", "dilate", "dilation_radius",
     "fill_holes"}

\* C16: processing_requested(args) is true iff the options derived from the
\* arguments differ from MaskProcessingOptions::default() in some field, which
\* is iff a flag of the derived record is on or its mask_threshold is not 120;
\* arguments that derive the default record, such as `--binary disabled` alone,
\* give false.
C16_ProcessingRequested ==
    call.fn = "processing_requested" =>
        LET derived == MaskProcessingOptions_from(input)
            default == [binary |-> FALSE, blur |-> FALSE, blur_sigma |-> <<6, 1>>,
                        mask_threshold |-> 120, dilate |-> FALSE,
                        dilation_radius |-> <<5, 1>>, fill_holes |-> FALSE]
        IN  /\ out <=> \E f \in OptionFields : derived[f] # default[f]
            /\ out <=> \/ derived.binary \/ derived.blur \/ derived.dilate
                       \/ derived.fill_holes \/ derived.mask_threshold # 120
            /\ derived = default => ~out
            /\ (/\ input.binary = "Disabled" /\ ~input.blur.some /\ ~input.dilate.some
                /\ ~input.fill_holes /\ input.mask_threshold = 120) => ~out

\* `--binary disabled` alone: the derived record is the default one and the
\* answer is false
C16_Witness ==
    /\ call.fn = "processing_requested"
    /\ input.binary = "Disabled" /\ input.mask_threshold = 120
    /\ ~input.blur.some /\ ~input.dilate.some /\ ~input.fill_holes
    /\ MaskProcessingOptions_from(input) = DefaultOptions
    /\ ~out

\* C17: has_soft_conflict(args) is true iff binary is explicitly Disabled and
\* a dilate radius is given or fill_holes is set; with binary Enabled or Auto
\* it is false for every combination of dilate and fill_holes.
C17_SoftConflict ==
    call2.fn = "has_soft_conflict" =>
        /\ out2 <=> (input.binary = "Disabled" /\ (input.dilate # None \/ input.fill_holes))
        /\ input.binary \in {"Enabled", "Auto"} => ~out2

\* `--binary auto --dilate 5 --fill-holes`: no conflict although both hard
\* operations are requested
C17_Witness ==
    /\ call2.fn = "has_soft_conflict"
    /\ input.binary = "Auto" /\ input.dilate = Some(<<5, 1>>) /\ input.fill_holes
    /\ ~out2

(***************************************************************************)
(* The mask command (src/src/commands/mask.rs) and the cut command         *)
(* (src/src/commands/cut.rs), with outcomes as for the compose command.    *)
(* cut.rs reads mask_processing.binary as a bool and gives build_outline   *)
(* its own defaults, so its argument record has a boolean binary.          *)
(***************************************************************************)
MaskCommand ==
    [mask_source : MaskExportSource, mask_processing : MaskProcessingArgs,
     raw_matte : RawMattes]

CutMaskProcessingArgs ==
    [blur : Options(ArgSigmas), mask_threshold : ArgThresholds, binary : BOOLEAN,
     dilate : Options(ArgRadii), fill_holes : BOOLEAN]

CutCommand ==
    [alpha_source : AlphaFromArg, export_matte : BOOLEAN, export_mask : BOOLEAN,
     mask_processing : CutMaskProcessingArgs, raw_matte : RawMattes]

\* the branch MaskExportSource::Processed of the final match, failing on a
\* soft conflict
mask_export_processed_strict(cmd, session) ==
    IF cmd.mask_processing.binary = "Disabled"
       /\ (is_some(cmd.mask_processing.dilate) \/ cmd.mask_processing.fill_holes)
    THEN [result |-> Err("soft conflict"), warnings |-> <<>>, saved |-> <<>>]
    ELSE [result |-> Ok(<<>>), warnings |-> <<>>,
          saved |-> <<Saved("mask", matte_processed(session).mask)>>]

\* the branch MaskExportSource::Processed of the final match
mask_export_processed(cmd, session) ==
    LET warnings ==
            IF cmd.mask_processing.binary = "Disabled"
               /\ (is_some(cmd.mask_processing.dilate) \/ cmd.mask_processing.fill_holes)
            THEN <<SoftConflictWarning("output")>>
            ELSE <<>>
        mask == matte_processed(session)
    IN  [result |-> Ok(<<>>), warnings |-> warnings, saved |-> <<Saved("mask", mask.mask)>>]

mask_run(cmd) ==
    LET session == for_image(cmd.raw_matte, cmd.mask_processing)
        defaults == DefaultOptions
        processing_requested_ ==
            \/ cmd.mask_processing.binary = "Enabled"
            \/ is_some(cmd.mask_processing.blur)
            \/ is_some(cmd.mask_processing.dilate)
            \/ cmd.mask_processing.fill_holes
            \/ cmd.mask_processing.mask_threshold # defaults.mask_threshold
        mask_source ==
            IF cmd.mask_source = "Auto"
            THEN (IF processing_requested_ THEN "Processed" ELSE "Raw")
            ELSE cmd.mask_source
    IN  IF mask_source = "Processed"
        THEN mask_export_processed(cmd, session)
        ELSE [result |-> Ok(<<>>), warnings |-> <<>>,
              saved |-> <<Saved("matte", session.raw_matte)>>]

\* build_outline(global, &cmd.mask_processing, defaults): the defaults with
\* every argument that was given laid over them
cut_build_outline(mask_args, defaults) ==
    [binary |-> mask_args.binary,
     blur |-> is_some(mask_args.blur),
     blur_sigma |-> unwrap_or(mask_args.blur, defaults.blur_sigma),
     mask_threshold |-> mask_args.mask_threshold,
     dilate |-> is_some(mask_args.dilate),
     dilation_radius |-> unwrap_or(mask_args.dilate, defaults.dilation_radius),
     fill_holes |-> mask_args.fill_holes]

cut_run(cmd) ==
    LET defaults == [DefaultOptions EXCEPT !.binary = FALSE]
        session == InferencedMatte_new(RgbFor(cmd.raw_matte), cmd.raw_matte,
                                       cut_build_outline(cmd.mask_processing, defaults))
        processing_requested_ ==
            \/ cmd.mask_processing.binary
            \/ is_some(cmd.mask_processing.blur)
            \/ is_some(cmd.mask_processing.dilate)
            \/ cmd.mask_processing.fill_holes
            \/ cmd.mask_processing.mask_threshold # defaults.mask_threshold
        alpha_source ==
            IF cmd.alpha_source = "Auto"
            THEN (IF processing_requested_ THEN "Processed" ELSE "Raw")
            ELSE cmd.alpha_source
        needs_processed_mask == alpha_source = "Processed" \/ cmd.export_mask
        warnings ==
            IF needs_processed_mask /\ ~cmd.mask_processing.binary
               /\ (is_some(cmd.mask_processing.dilate) \/ cmd.mask_processing.fill_holes)
            THEN <<SoftConflictWarning("processed output")>>
            ELSE <<>>
        \* ensure_processed: the first use computes the mask, later uses clone it
        ensure_processed == matte_processed(session)
        foreground ==
            IF alpha_source = "Raw"
            THEN compose_foreground(session.rgb_image, session.raw_matte)
            ELSE compose_foreground(ensure_processed.rgb_image, ensure_processed.mask)
    IN  IF ~foreground.ok
        THEN [result |-> foreground, warnings |-> warnings, saved |-> <<>>]
        ELSE [result |-> Ok(<<>>), warnings |-> warnings,
              saved |-> <<Saved("foreground", foreground.value)>>
                        \o SavedIf(cmd.export_matte, "matte", session.raw_matte)
                        \o (IF cmd.export_mask
                            THEN <<Saved("mask", ensure_processed.mask)>> ELSE <<>>)]

(***************************************************************************)
(* One run of the mask, cut or compose command on every bounded command    *)
(* line.                                                                   *)
(***************************************************************************)
InitCommands ==
    /\ NoHandles
    /\ input \in [command : {"mask"}, cmd : MaskCommand]
                 \cup [command : {"cut"}, cmd : CutCommand]
                 \cup [command : {"compose"}, cmd : ComposeCommand]
    /\ call = NoCall /\ out = NoValue
    /\ call2 = NoCall /\ out2 = NoValue

RunMaskCommand ==
    /\ call.fn = "none" /\ input.command = "mask"
    /\ call' = [fn |-> "mask::run"]
    /\ out' = mask_run(input.cmd)
    /\ UNCHANGED <<input, call2, out2, handleVars, heapVars>>

RunCutCommand ==
    /\ call.fn = "none" /\ input.command = "cut"
    /\ call' = [fn |-> "cut::run"]
    /\ out' = cut_run(input.cmd)
    /\ UNCHANGED <<input, call2, out2, handleVars, heapVars>>

RunComposeCommand ==
    /\ call.fn = "none" /\ input.command = "compose"
    /\ call' = [fn |-> "compose::run"]
    /\ out' = compose_run(input.cmd)
    /\ UNCHANGED <<input, call2, out2, handleVars, heapVars>>

NextCommands ==
    \/ RunMaskCommand
    \/ RunCutCommand
    \/ RunComposeCommand

SpecCommands == InitCommands /\ [][NextCommands]_vars

HardOpRequested(args) == args.dilate.some \/ args.fill_holes

\* binary disabled with dilate or fill_holes requested
SoftConflict(in) ==
    /\ HardOpRequested(in.cmd.mask_processing)
    /\ IF in.command = "cut" THEN ~in.cmd.mask_processing.binary
       ELSE in.cmd.mask_processing.binary = "Disabled"

\* the requested operations of a conflicting command line: no Threshold
SoftPipeline(args) ==
    (IF args.blur.some THEN <<Blur(args.blur.value)>> ELSE <<>>)
    \o (IF args.dilate.some THEN <<Dilate(args.dilate.value)>> ELSE <<>>)
    \o (IF args.fill_holes THEN <<FillHoles(args.mask_threshold)>> ELSE <<>>)

SoftProcessed(cmd) == ApplyLoop(cmd.raw_matte, SoftPipeline(cmd.mask_processing))

Cutout(cmd, alpha) ==
    [w |-> alpha.w, h |-> alpha.h,
     px |-> [i \in DOMAIN alpha.px |-> RgbFor(cmd.raw_matte).px[i] \o <<alpha.px[i]>>]]

\* what a conflicting command line saves, step by step
ConflictSaved(in) ==
    LET cmd == in.cmd
        raw == cmd.raw_matte
        soft == SoftProcessed(cmd)
    IN  CASE in.command = "mask" ->
               IF cmd.mask_source = "Raw" THEN <<Saved("matte", raw)>>
               ELSE <<Saved("mask", soft)>>
          [] in.command = "cut" ->
               <<Saved("foreground",
                       Cutout(cmd, IF cmd.alpha_source = "Raw" THEN raw ELSE soft))>>
               \o (IF cmd.export_matte THEN <<Saved("matte", raw)>> ELSE <<>>)
               \o (IF cmd.export_mask THEN <<Saved("mask", soft)>> ELSE <<>>)
          [] in.command = "compose" ->
               LET fg == Cutout(cmd, IF cmd.fg_mask_source = "Processed" THEN soft ELSE raw)
                   bg == create_rgba_layer_from_mask(
                             IF cmd.bg_mask_source = "Raw" THEN raw ELSE soft, ComposeFill)
               IN  <<Saved("composite", alpha_composite(bg, fg))>>
                   \o (IF cmd.exports.export_foreground
                       THEN <<Saved("foreground", fg)>> ELSE <<>>)
                   \o (IF cmd.exports.export_matte THEN <<Saved("matte", raw)>> ELSE <<>>)
                   \o (IF cmd.exports.export_mask THEN <<Saved("mask", soft)>> ELSE <<>>)
                   \o (IF cmd.exports.export_bg_layer
                       THEN <<Saved("bg-layer", bg)>> ELSE <<>>)

\* C18: a command line with a soft conflict (binary disabled, dilate or
\* fill_holes requested) never ends in an error and skips nothing: the run
\* returns Ok, writes at most the one warning, and saves exactly the images of
\* its processing and output steps, the processed mask being Dilate/FillHoles
\* applied to the un-thresholded matte.
C18_SoftConflictOnlyWarns ==
    (call.fn # "none" /\ SoftConflict(input)) =>
        /\ out.result = Ok(<<>>)
        /\ Len(out.warnings) <= 1
        /\ \A i \in DOMAIN out.warnings : out.warnings[i][1] = "Warning: --no-binary"
        /\ out.saved = ConflictSaved(input)

\* `mask --binary disabled --dilate R`: the warning is written and the saved
\* mask is the dilation of the matte as the model inferred it
C18_Witness ==
    /\ call.fn = "mask::run"
    /\ input.cmd.mask_source = "Auto"
    /\ input.cmd.mask_processing.binary = "Disabled"
    /\ input.cmd.mask_processing.dilate.some
    /\ ~input.cmd.mask_processing.blur.some /\ ~input.cmd.mask_processing.fill_holes
    /\ out.result.ok
    /\ Len(out.warnings) = 1
    /\ Len(out.saved) = 1 /\ out.saved[1].file = "mask"
    /\ out.saved[1].image # input.cmd.raw_matte
    /\ out.saved[1].image =
          dilate_euclidean(input.cmd.raw_matte, input.cmd.mask_processing.dilate.value)

(***************************************************************************)
(* Model input layout inference (src/src/inference.rs).  A session is the  *)
(* declaration of its first input: none, one that is not a tensor, or a    *)
(* tensor shape, a sequence of i64 with -1 for a dynamic dimension.  The   *)
(* dimensions of the model fit a usize, so usize::try_from succeeds on     *)
(* every positive one.                                                     *)
(***************************************************************************)
\* longest declared shape
MaxRank == 4

DimValues == {-1, 0, 1, 3, 5, 320}

Shapes == UNION {[1..n -> DimValues] : n \in 3..MaxRank}

Sessions ==
    {[inputs |-> "none"], [inputs |-> "not a tensor"]}
    \cup {[inputs |-> "tensor", shape |-> s] : s \in Shapes}

Nchw == "Nchw"
Nhwc == "Nhwc"

ModelInputSpec(width, height, layout) ==
    [width |-> width, height |-> height, layout |-> layout]

DEFAULT_MODEL_INPUT_SPEC == ModelInputSpec(320, 320, Nchw)

\* dims.get(i), with the index counted from 0
dims_get(dims, i) == IF i + 1 \in DOMAIN dims THEN Some(dims[i + 1]) ELSE None

positive_dim_to_usize(dim) == IF dim > 0 THEN Some(dim) ELSE None

infer_nchw_spec(dims) ==
    LET channels == dims_get(dims, 1)
        height == dims_get(dims, 2)
        width == dims_get(dims, 3)
    IN  IF ~channels.some THEN None
        ELSE IF channels.value # 3 /\ channels.value # -1 THEN None
        ELSE IF ~height.some \/ ~width.some THEN None
        ELSE IF ~positive_dim_to_usize(height.value).some THEN None
        ELSE IF ~positive_dim_to_usize(width.value).some THEN None
        ELSE Some(ModelInputSpec(positive_dim_to_usize(width.value).value,
                                 positive_dim_to_usize(height.value).value, Nchw))

infer_nhwc_spec_channels_first(dims) ==
    LET channels == dims_get(dims, 1)
        height == dims_get(dims, 1)
        width == dims_get(dims, 2)
    IN  IF ~channels.some THEN None
        ELSE IF channels.value # 3 /\ channels.value # -1 THEN None
        ELSE IF ~height.some \/ ~width.some THEN None
        ELSE IF ~positive_dim_to_usize(height.value).some THEN None
        ELSE IF ~positive_dim_to_usize(width.value).some THEN None
        ELSE Some(ModelInputSpec(positive_dim_to_usize(width.value).value,
                                 positive_dim_to_usize(height.value).value, Nhwc))

infer_nhwc_spec(dims) ==
    LET channels == dims_get(dims, 3)
        height == dims_get(dims, 1)
        width == dims_get(dims, 2)
    IN  IF ~channels.some THEN None
        ELSE IF channels.value # 3 /\ channels.value # -1 THEN None
        ELSE IF ~height.some \/ ~width.some THEN None
        ELSE IF ~positive_dim_to_usize(height.value).some THEN None
        ELSE IF ~positive_dim_to_usize(width.value).some THEN None
        ELSE Some(ModelInputSpec(positive_dim_to_usize(width.value).value,
                                 positive_dim_to_usize(height.value).value, Nhwc))

infer_model_input_spec(session) ==
    IF session.inputs # "tensor" THEN None
    ELSE LET dims == session.shape
         IN  IF Len(dims) >= 4
             THEN IF infer_nchw_spec(dims).some THEN infer_nchw_spec(dims)
                  ELSE IF infer_nhwc_spec(dims).some THEN infer_nhwc_spec(dims)
                  ELSE None
             ELSE None

determine_model_input_spec(session) ==
    unwrap_or(infer_model_input_spec(session), DEFAULT_MODEL_INPUT_SPEC)

(***************************************************************************)
(* determine_model_input_spec applied to every bounded session.            *)
(***************************************************************************)
InitInference ==
    /\ NoHandles
    /\ input \in Sessions
    /\ call = NoCall /\ out = NoValue
    /\ call2 = NoCall /\ out2 = NoValue

CallDetermineModelInputSpec ==
    /\ call.fn = "none"
    /\ call' = [fn |-> "determine_model_input_spec"]
    /\ out' = determine_model_input_spec(input)
    /\ UNCHANGED <<input, call2, out2, handleVars, heapVars>>

NextInference == CallDetermineModelInputSpec

SpecInference == InitInference /\ [][NextInference]_vars

\* a declared shape of four dimensions, each positive or -1
DeclaredShape4 ==
    /\ input.inputs = "tensor"
    /\ Len(input.shape) = 4
    /\ \A i \in 1..4 : input.shape[i] > 0 \/ input.shape[i] = -1

\* dim[i] of the declared shape, with the index counted from 0
dim(i) == input.shape[i + 1]

\* C19: for a declared shape of four dimensions, each positive or -1: if
\* dim[1] is 3 or -1 the layout is NCHW with height dim[2] and width dim[3];
\* only if dim[1] is neither and dim[3] is 3 or -1 is it NHWC with height
\* dim[1] and width dim[2]; otherwise the default spec (320x320, NCHW) is
\* returned.  A matched layout whose height or width is not positive gives the
\* default spec, and a returned spec has width >= 1 and height >= 1.
C19_LayoutRule ==
    (call.fn = "determine_model_input_spec" /\ DeclaredShape4) =>
        LET default == [width |-> 320, height |-> 320, layout |-> "Nchw"]
        IN  /\ out.width >= 1 /\ out.height >= 1
            /\ out = IF dim(1) \in {3, -1}
                     THEN (IF dim(2) > 0 /\ dim(3) > 0
                           THEN [width |-> dim(3), height |-> dim(2), layout |-> "Nchw"]
                           ELSE default)
                     ELSE IF dim(3) \in {3, -1}
                     THEN (IF dim(1) > 0 /\ dim(2) > 0
                           THEN [width |-> dim(2), height |-> dim(1), layout |-> "Nhwc"]
                           ELSE default)
                     ELSE default

\* the declared shape [1, 3, 5, -1]: the NCHW match is rejected for its
\* dynamic width and the NHWC test then accepts dim[1] = 3 as a height
C19_Witness ==
    /\ call.fn = "determine_model_input_spec"
    /\ input.inputs = "tensor" /\ input.shape = <<1, 3, 5, -1>>
    /\ out = ModelInputSpec(5, 3, Nhwc)

ShapeIs(shape) == input.inputs = "tensor" /\ input.shape = shape

\* C20 as claimed: [1,3,320,320] gives NCHW 320x320, [1,320,320,3] gives NHWC
\* 320x320, [1,5,5,5] gives the default spec (320x320, NCHW) and the dynamic
\* shape [1,-1,-1,3] gives the NHWC layout.
C20_ExamplesDynamicNhwc ==
    call.fn = "determine_model_input_spec" =>
        /\ ShapeIs(<<1, 3, 320, 320>>) =>
              out = [width |-> 320, height |-> 320, layout |-> "Nchw"]
        /\ ShapeIs(<<1, 320, 320, 3>>) =>
              out = [width |-> 320, height |-> 320, layout |-> "Nhwc"]
        /\ ShapeIs(<<1, 5, 5, 5>>) =>
              out = [width |-> 320, height |-> 320, layout |-> "Nchw"]
        /\ ShapeIs(<<1, -1, -1, 3>>) => out.layout = "Nhwc"

\* C20, amended: [1,3,320,320] gives NCHW 320x320, [1,320,320,3] gives NHWC
\* 320x320, [1,5,5,5] gives the default spec (320x320, NCHW), and the dynamic
\* shape [1,-1,-1,3] gives the default spec as well: its channel dimensions
\* match both layouts, but each layout's height is -1.
C20_ExamplesDynamicDefault ==
    call.fn = "determine_model_input_spec" =>
        /\ ShapeIs(<<1, 3, 320, 320>>) =>
              out = [width |-> 320, height |-> 320, layout |-> "Nchw"]
        /\ ShapeIs(<<1, 320, 320, 3>>) =>
              out = [width |-> 320, height |-> 320, layout |-> "Nhwc"]
        /\ ShapeIs(<<1, 5, 5, 5>>) =>
              out = [width |-> 320, height |-> 320, layout |-> "Nchw"]
        /\ ShapeIs(<<1, -1, -1, 3>>) =>
              out = [width |-> 320, height |-> 320, layout |-> "Nchw"]

\* the dynamic shape [1,-1,-1,3] was given and the default spec came back
C20_Witness ==
    /\ call.fn = "determine_model_input_spec"
    /\ ShapeIs(<<1, -1, -1, 3>>)
    /\ infer_model_input_spec(input) = None
    /\ out = DEFAULT_MODEL_INPUT_SPEC

(***************************************************************************)
(* extract_matte_hw (src/src/inference.rs).  An array is its shape and its *)
(* elements in row-major order.  The loop is taken one iteration at a      *)
(* time: `call` holds the frame of the running call (view, number of axes  *)
(* removed so far) until the function returns into `out`.                  *)
(***************************************************************************)
\* highest rank of a model output
MaxOutputRank == 4

AxisLengths == {1, 2, 3}

OutputShapes == UNION {[1..n -> AxisLengths] : n \in 0..MaxOutputRank}

RECURSIVE Product(_)
Product(shape) == IF shape = <<>> THEN 1 ELSE Head(shape) * Product(Tail(shape))

\* the model outputs: every element differs from the others
ModelOutputs == {[shape |-> s, data |-> [i \in 1..Product(s) |-> i]] : s \in OutputShapes}

ndim(view) == Len(view.shape)

\* shape().iter().position(|&len| len == 1), taking the last such axis
position_len_1_last(shape) ==
    IF \E i \in DOMAIN shape : shape[i] = 1
    THEN Some((CHOOSE i \in DOMAIN shape :
                  shape[i] = 1 /\ \A j \in DOMAIN shape : shape[j] = 1 => j <= i) - 1)
    ELSE None

\* shape().iter().position(|&len| len == 1): axes are counted from 0
position_len_1(shape) ==
    IF \E i \in DOMAIN shape : shape[i] = 1
    THEN Some((CHOOSE i \in DOMAIN shape :
                  shape[i] = 1 /\ \A j \in DOMAIN shape : shape[j] = 1 => i <= j) - 1)
    ELSE None

\* view.index_axis_move(Axis(axis), index): the sub-view at one index of an axis
index_axis_move(view, axis, index) ==
    LET len == view.shape[axis + 1]
        inner == Product(SubSeq(view.shape, axis + 2, Len(view.shape)))
        shape == SubSeq(view.shape, 1, axis) \o SubSeq(view.shape, axis + 2, Len(view.shape))
    IN  [shape |-> shape,
         data |-> [q \in 1..Product(shape) |->
                      view.data[((q - 1) \div inner) * (len * inner) + index * inner
                                + ((q - 1) % inner) + 1]]]

ShapeError == [kind |-> "Shape"]
InvalidData(original_shape) == [kind |-> "Io", original_shape |-> original_shape]

InitExtract ==
    /\ NoHandles
    /\ input \in ModelOutputs
    /\ call = NoCall /\ out = NoValue
    /\ call2 = NoCall /\ out2 = NoValue

\* entry: original_shape is recorded and view is the argument
CallExtractMatteHw ==
    /\ call.fn = "none"
    /\ call' = [fn |-> "extract_matte_hw", pc |-> "loop", original_shape |-> input.shape,
                view |-> input, removals |-> 0]
    /\ UNCHANGED <<input, out, call2, out2, handleVars, heapVars>>

\* one iteration of `while view.ndim() > 2` that finds an axis of length 1
ExtractRemoveAxis ==
    /\ call.fn = "extract_matte_hw" /\ call.pc = "loop"
    /\ ndim(call.view) > 2
    /\ position_len_1(call.view.shape).some
    /\ call' = [call EXCEPT
                  !.view = index_axis_move(@, position_len_1(call.view.shape).value, 0),
                  !.removals = @ + 1]
    /\ UNCHANGED <<input, out, call2, out2, handleVars, heapVars>>

\* one iteration that finds none: `?` returns the error
ExtractAmbiguous ==
    /\ call.fn = "extract_matte_hw" /\ call.pc = "loop"
    /\ ndim(call.view) > 2
    /\ ~position_len_1(call.view.shape).some
    /\ call' = [call EXCEPT !.pc = "returned"]
    /\ out' = Err(InvalidData(call.original_shape))
    /\ UNCHANGED <<input, call2, out2, handleVars, heapVars>>

\* the loop is left: into_dimensionality::<Ix2>()?.to_owned()
ExtractReturn ==
    /\ call.fn = "extract_matte_hw" /\ call.pc = "loop"
    /\ ndim(call.view) <= 2
    /\ call' = [call EXCEPT !.pc = "returned"]
    /\ out' = IF ndim(call.view) = 2 THEN Ok(call.view) ELSE Err(ShapeError)
    /\ UNCHANGED <<input, call2, out2, handleVars, heapVars>>

NextExtract ==
    \/ CallExtractMatteHw
    \/ ExtractRemoveAxis
    \/ ExtractAmbiguous
    \/ ExtractReturn

SpecExtract == InitExtract /\ [][NextExtract]_vars

Ones(shape) == {i \in DOMAIN shape : shape[i] = 1}

\* shape with its first k axes of length 1 left out
RECURSIVE WithoutFirstOnes(_, _)
WithoutFirstOnes(shape, k) ==
    IF k = 0 \/ shape = <<>> THEN shape
    ELSE IF Head(shape) = 1 THEN WithoutFirstOnes(Tail(shape), k - 1)
    ELSE <<Head(shape)>> \o WithoutFirstOnes(Tail(shape), k)

\* C21: on an output of rank n >= 2 and shape s extract_matte_hw removes at
\* most n-2 axes; it returns Ok exactly when s has at least n-2 axes of length
\* 1, and then the 2-D array of shape s without its first n-2 length-1 axes,
\* the elements in their order; otherwise it returns an error and no array,
\* and it does so at a step where the rank is above 2 and no axis has length
\* 1.  A rank-2 input is returned as it is.
C21_ExtractMatteHw ==
    (call.fn = "extract_matte_hw" /\ Len(input.shape) >= 2) =>
        LET n == Len(input.shape)
            s == input.shape
        IN  /\ call.removals <= n - 2
            /\ call.pc = "returned" =>
                  /\ out.ok <=> Cardinality(Ones(s)) >= n - 2
                  /\ out.ok => /\ out.value.shape = WithoutFirstOnes(s, n - 2)
                               /\ Len(out.value.shape) = 2
                               /\ out.value.data = input.data
                               /\ call.removals = n - 2
                  /\ ~out.ok => /\ DOMAIN out = {"ok", "error"}
                                /\ ndim(call.view) > 2
                                /\ Ones(call.view.shape) = {}
                  /\ n = 2 => out = Ok(input)

\* shape [1, 2, 1, 3]: the first of the two axes of length 1 was removed, then
\* the other, and the 2x3 array came back
C21_Witness ==
    /\ call.fn = "extract_matte_hw" /\ call.pc = "returned"
    /\ input.shape = <<1, 2, 1, 3>>
    /\ call.removals = 2
    /\ out.ok /\ out.value.shape = <<2, 3>>

(***************************************************************************)
(* Handles and the images they refer to (src/src/lib.rs).  heap is the     *)
(* sequence of the images in memory, an address being an index into it;    *)
(* live holds the handles the caller has.  Here the Arc fields of          *)
(* inferenced and of the handles, and the mask a MaskHandle owns, are      *)
(* addresses.  `input` keeps the images the model produced.                *)
(***************************************************************************)
\* handles the caller holds at one time
MaxLive == 2

HeapBuilderOps == {Threshold(100), Dilate(<<1, 1>>)}
HeapProcessedArgs == {None, Some([DefaultOptions EXCEPT !.dilate = TRUE,
                                                         !.dilation_radius = <<1, 1>>])}

\* write an image at an address: a new address extends the memory
store(mem, address, image) ==
    IF address \in DOMAIN mem THEN [mem EXCEPT ![address] = image] ELSE Append(mem, image)

\* GrayImage::clone sharing the pixels of its source
GrayImage_clone_shared(mem, source) == source

\* GrayImage::clone: the address of the copy, a fresh allocation
GrayImage_clone(mem, source) == Len(mem) + 1

\* Arc::clone: another reference to the same image
Arc_clone(address) == address

\* apply_operations(source, operations): `current` starts as a clone of the
\* source and ends as the result; returns the memory and current's address
apply_operations_at(mem, source, operations) ==
    LET current == GrayImage_clone(mem, source)
        cloned == store(mem, current, mem[source])
    IN  [heap |-> store(cloned, current, ApplyLoop(cloned[current], operations)),
         current |-> current]

InitHeap ==
    /\ input \in [raw_matte : RawMattes, default_mask_processing : StoredDefaults]
    /\ call = NoCall /\ out = NoValue
    /\ call2 = NoCall /\ out2 = NoValue
    /\ heap = <<RgbFor(input.raw_matte), input.raw_matte>>
    /\ inferenced = InferencedMatte_new(1, 2, input.default_mask_processing)
    /\ live = <<>>
    /\ files = <<>>
    /\ handle = NoHandle
    /\ processedCall = NoProcessedCall
    /\ ncalls = 0

\* inferenced.matte()
Heap_matte ==
    /\ Called
    /\ Len(live) < MaxLive
    /\ live' = Append(live, MatteHandle(Arc_clone(inferenced.rgb_image),
                                        Arc_clone(inferenced.raw_matte),
                                        inferenced.default_mask_processing, <<>>))
    /\ UNCHANGED <<heap, files, inferenced, handle, processedCall, fnVars>>

\* live[i].clone() of a MatteHandle (derived Clone)
Heap_MatteHandle_clone ==
    /\ Called
    /\ Len(live) < MaxLive
    /\ \E i \in DOMAIN live :
          /\ live[i].kind = "MatteHandle"
          /\ live' = Append(live, [live[i] EXCEPT !.rgb_image = Arc_clone(@),
                                                  !.raw_matte = Arc_clone(@)])
    /\ UNCHANGED <<heap, files, inferenced, handle, processedCall, fnVars>>

\* live[i].clone() of a MaskHandle (derived Clone): the mask is copied
Heap_MaskHandle_clone ==
    /\ Called
    /\ Len(live) < MaxLive
    /\ \E i \in DOMAIN live :
          /\ live[i].kind = "MaskHandle"
          /\ LET copy == GrayImage_clone(heap, live[i].mask)
             IN  /\ heap' = store(heap, copy, heap[live[i].mask])
                 /\ live' = Append(live, [live[i] EXCEPT !.rgb_image = Arc_clone(@),
                                                         !.mask = copy])
    /\ UNCHANGED <<files, inferenced, handle, processedCall, fnVars>>

\* a builder call (blur, threshold, dilate, fill_holes) on live[i]: the
\* handle is moved in and comes back with the operation pushed
Heap_builder ==
    /\ Called
    /\ \E i \in DOMAIN live, op \in HeapBuilderOps :
          live' = [live EXCEPT ![i] = Push(@, op)]
    /\ UNCHANGED <<heap, files, inferenced, handle, processedCall, fnVars>>

\* MatteHandle::processed(options) on live[i]
Heap_MatteHandle_processed ==
    /\ Called
    /\ \E i \in DOMAIN live, options \in HeapProcessedArgs :
          /\ live[i].kind = "MatteHandle"
          /\ LET self == live[i]
                 ops == ProcessedOps(self.operations, options, self.default_mask_processing)
                 applied == apply_operations_at(heap, self.raw_matte, ops)
             IN  /\ heap' = applied.heap
                 /\ live' = [live EXCEPT ![i] =
                                MaskHandle_new(Arc_clone(self.rgb_image), applied.current,
                                               self.default_mask_processing)]
    /\ UNCHANGED <<files, inferenced, handle, processedCall, fnVars>>

\* MaskHandle::processed(options) on live[i]
Heap_MaskHandle_processed ==
    /\ Called
    /\ \E i \in DOMAIN live, options \in HeapProcessedArgs :
          /\ live[i].kind = "MaskHandle"
          /\ LET self == live[i]
                 ops == ProcessedOps(self.operations, options, self.default_mask_processing)
                 applied == apply_operations_at(heap, self.mask, ops)
             IN  /\ heap' = applied.heap
                 /\ live' = [live EXCEPT ![i] =
                                MaskHandle_new(self.rgb_image, applied.current,
                                               self.default_mask_processing)]
    /\ UNCHANGED <<files, inferenced, handle, processedCall, fnVars>>

NextHeap ==
    \/ Heap_matte
    \/ Heap_MatteHandle_clone
    \/ Heap_MaskHandle_clone
    \/ Heap_builder
    \/ Heap_MatteHandle_processed
    \/ Heap_MaskHandle_processed

SpecHeap == InitHeap /\ [][NextHeap]_vars

MaskHandlesOf(handles) == {i \in DOMAIN handles : handles[i].kind = "MaskHandle"}

\* the images the model produced are where the InferencedMatte and every
\* MatteHandle point, and no two MaskHandles own the same mask
HandlesAreValues ==
    /\ heap[inferenced.rgb_image] = RgbFor(input.raw_matte)
    /\ heap[inferenced.raw_matte] = input.raw_matte
    /\ \A i \in DOMAIN live :
          /\ heap[live[i].rgb_image] = RgbFor(input.raw_matte)
          /\ live[i].kind = "MatteHandle" => heap[live[i].raw_matte] = input.raw_matte
    /\ \A i, j \in MaskHandlesOf(live) : i # j => live[i].mask # live[j].mask

\* a call changes at most one of the handles held before it, and no image
\* that was in memory before it
CallsWriteFreshImages ==
    /\ \A a \in DOMAIN heap : heap'[a] = heap[a]
    /\ inferenced' = inferenced
    /\ \E i \in DOMAIN live' : \A j \in DOMAIN live : j # i => live'[j] = live[j]

\* C22: after any sequence of builder and processed() calls on handles of one
\* InferencedMatte, its raw matte and RGB image are unchanged, every other
\* MatteHandle still yields the original raw matte with its own queue, a
\* MaskHandle cloned before a processed() call keeps its mask, and processed()
\* writes only to a freshly created image.
C22_HandlesAreValues == []HandlesAreValues /\ [][CallsWriteFreshImages]_vars

\* a MaskHandle and its clone, one of them processed again: two masks at two
\* addresses with different pixels
C22_Witness ==
    /\ Len(live) = 2
    /\ live[1].kind = "MaskHandle" /\ live[2].kind = "MaskHandle"
    /\ live[1].mask # live[2].mask
    /\ heap[live[1].mask] # heap[live[2].mask]
    /\ heap[live[2].mask] # input.raw_matte

(***************************************************************************)
(* The calls of alpha_composite (src/src/layer.rs,                         *)
(* src/src/commands/compose.rs).  For each caller, the sequence of the     *)
(* argument pairs it hands to alpha_composite on the way to its result.    *)
(***************************************************************************)
AlphaCompositeCall(bottom, top) == [bottom |-> bottom, top |-> top]

overlay_foreground_on_layer_composites(rgb, foreground_mask, layer_mask, fill) ==
    LET expected == dimensions(rgb)
    IN  IF dimensions(layer_mask) # expected THEN <<>>
        ELSE LET base_layer == create_rgba_layer_from_mask(layer_mask, fill)
                 foreground == compose_foreground(rgb, foreground_mask)
             IN  IF ~foreground.ok THEN <<>>
                 ELSE IF dimensions(foreground.value) # dimensions(base_layer) THEN <<>>
                      ELSE <<AlphaCompositeCall(base_layer, foreground.value)>>

overlay_image_on_mask_composites_unchecked(layer_mask, fill, overlay) ==
    <<AlphaCompositeCall(create_rgba_layer_from_mask(layer_mask, fill), overlay)>>

overlay_image_on_mask_composites(layer_mask, fill, overlay) ==
    IF dimensions(layer_mask) # dimensions(overlay) THEN <<>>
    ELSE <<AlphaCompositeCall(create_rgba_layer_from_mask(layer_mask, fill), overlay)>>

\* compose::run: the background layer and the foreground it composites
compose_run_composites(cmd) ==
    LET session == for_image(cmd.raw_matte, cmd.mask_processing)
        fg_src == compose_fg_src(cmd)
        bg_src == resolve_mask_source_arg(cmd.bg_mask_source,
                                          processing_requested(cmd.mask_processing))
        proc == matte_processed(session)
        foreground == IF fg_src = "Raw"
                      THEN compose_foreground(session.rgb_image, session.raw_matte)
                      ELSE compose_foreground(session.rgb_image, proc.mask)
        bg_layer == IF bg_src = "Raw"
                    THEN create_rgba_layer_from_mask(session.raw_matte, ComposeFill)
                    ELSE create_rgba_layer_from_mask(proc.mask, ComposeFill)
    IN  IF ~foreground.ok THEN <<>>
        ELSE <<AlphaCompositeCall(bg_layer, foreground.value)>>

\* one matte per command: the command's arguments decide the two sources
CompositeCommands == {cmd \in ComposeCommand : cmd.raw_matte.w = 2}

OverlayArguments ==
    [rgb : OverlayRgbImages, foreground_mask : OverlayMasks, layer_mask : OverlayMasks,
     fill : OverlayFills, overlay : OverlayRgbaImages]

InitCallers ==
    /\ NoHandles
    /\ input \in [caller : {"overlay"}, args : OverlayArguments]
                  \cup [caller : {"compose"}, args : CompositeCommands]
    /\ call = NoCall /\ out = NoValue
    /\ call2 = NoCall /\ out2 = NoValue

\* `out` is the caller's result, `out2` the alpha_composite calls it made
CallerOverlayForegroundOnLayer ==
    /\ call.fn = "none"
    /\ input.caller = "overlay"
    /\ LET a == input.args
       IN  /\ call' = [fn |-> "overlay_foreground_on_layer"]
           /\ out' = overlay_foreground_on_layer(a.rgb, a.foreground_mask, a.layer_mask, a.fill)
           /\ out2' = overlay_foreground_on_layer_composites(a.rgb, a.foreground_mask,
                                                             a.layer_mask, a.fill)
    /\ UNCHANGED <<input, call2, handleVars, heapVars>>

CallerOverlayImageOnMask ==
    /\ call.fn = "none"
    /\ input.caller = "overlay"
    /\ LET a == input.args
       IN  /\ call' = [fn |-> "overlay_image_on_mask"]
           /\ out' = overlay_image_on_mask(a.layer_mask, a.fill, a.overlay)
           /\ out2' = overlay_image_on_mask_composites(a.layer_mask, a.fill, a.overlay)
    /\ UNCHANGED <<input, call2, handleVars, heapVars>>

CallerComposeRun ==
    /\ call.fn = "none"
    /\ input.caller = "compose"
    /\ call' = [fn |-> "compose::run"]
    /\ out' = compose_run(input.args).result
    /\ out2' = compose_run_composites(input.args)
    /\ UNCHANGED <<input, call2, handleVars, heapVars>>

NextCallers ==
    \/ CallerOverlayForegroundOnLayer
    \/ CallerOverlayImageOnMask
    \/ CallerComposeRun

SpecCallers == InitCallers /\ [][NextCallers]_vars

OverlayDimensionsAgree ==
    /\ call.fn = "overlay_foreground_on_layer" =>
          /\ dimensions(input.args.layer_mask) = dimensions(input.args.rgb)
          /\ dimensions(input.args.foreground_mask) = dimensions(input.args.rgb)
    /\ call.fn = "overlay_image_on_mask" =>
          dimensions(input.args.layer_mask) = dimensions(input.args.overlay)

\* C23: every call of alpha_composite made by overlay_foreground_on_layer,
\* overlay_image_on_mask and the compose command has a bottom and a top of
\* equal dimensions, so its debug assertion never fails; in the overlay
\* functions a mismatch becomes an AlphaMismatch error and alpha_composite is
\* not called.
C23_CompositeDimensions ==
    call.fn # "none" =>
        /\ \A i \in DOMAIN out2 : dimensions(out2[i].bottom) = dimensions(out2[i].top)
        /\ out.ok <=> Len(out2) = 1
        /\ OverlayDimensionsAgree <=> out.ok
        /\ call.fn = "compose::run" => out.ok
        /\ ~out.ok => out.error.kind = "AlphaMismatch" /\ out2 = <<>>

\* overlay_image_on_mask composites a two-pixel layer and overlay
C23_Witness ==
    /\ call.fn = "overlay_image_on_mask"
    /\ Len(out2) = 1
    /\ dimensions(out2[1].bottom) = <<2, 1>>
    /\ dimensions(out2[1].top) = <<2, 1>>

(***************************************************************************)
(* fetch_model and download_and_verify (src/src/model_fetch.rs), one step  *)
(* per file-system or network operation.  files maps the output path and   *)
(* the temporary path to their contents; `call` is the frame of the call:  *)
(* its position, the chunks the reader has yet to return and the bytes     *)
(* read so far.  A read, a write, a create or a rename can fail.           *)
(***************************************************************************)
\* chunks the reader returns before the end of the body
MaxChunks == 2

Bytes == {0, 1}
Chunks == {<<0>>, <<1>>, <<0, 1>>}
Bodies == UNION {[1..n -> Chunks] : n \in 0..MaxChunks}

\* Sha256::digest as a small digest: as with the real one, different
\* contents may have the same digest
RECURSIVE Sha256(_)
Sha256(bytes) ==
    IF bytes = <<>> THEN 5
    ELSE (3 * Sha256(SubSeq(bytes, 1, Len(bytes) - 1)) + bytes[Len(bytes)] + 1) % 8

Digests == 0..7

FetchOptions == [expected_sha256 : Digests, force : BOOLEAN]

\* options.output.with_extension("onnx.tmp")
temp_path == "output.onnx.tmp"
output_path == "output"

exists(path) == files[path].some

download_error(msg) == [kind |-> "Io", message |-> msg]
IoError == [kind |-> "Io", message |-> "os error"]

checksum_matches_unverified(actual_hash, expected_sha256) == TRUE

\* actual_hash != expected_sha256, negated
checksum_matches(actual_hash, expected_sha256) == actual_hash = expected_sha256

InitFetch ==
    /\ inferenced = NoValue
    /\ handle = NoHandle
    /\ processedCall = NoProcessedCall
    /\ ncalls = 0
    /\ input \in [options : FetchOptions, body : Bodies,
                  existing : {None, Some(<<1, 1, 1>>)}, stale : {None, Some(<<0, 0, 0>>)}]
    /\ files = [p \in {output_path, temp_path} |->
                   IF p = output_path THEN input.existing ELSE input.stale]
    /\ heap = <<>> /\ live = <<>>
    /\ call = NoCall /\ out = NoValue
    /\ call2 = NoCall /\ out2 = NoValue

Frame(pc, body, downloaded) ==
    [fn |-> "fetch_model", pc |-> pc, body |-> body, downloaded |-> downloaded]

Return(result) ==
    /\ call' = [call EXCEPT !.pc = "done"]
    /\ out' = result

\* fetch_model up to the request: the shortcut for an existing file, and the
\* failure of the request
FetchModel ==
    /\ call.fn = "none"
    /\ \/ /\ exists(output_path) /\ ~input.options.force
          /\ call' = Frame("done", input.body, <<>>)
          /\ out' = Ok(output_path)
       \/ /\ ~(exists(output_path) /\ ~input.options.force)
          /\ \/ /\ call' = Frame("create", input.body, <<>>)
                /\ out' = out
             \/ /\ call' = Frame("done", input.body, <<>>)
                /\ out' = Err(download_error("Model download failed"))
    /\ UNCHANGED <<input, call2, out2, files, handleVars, heap, live>>

\* File::create(temp_path)?
DownloadCreate ==
    /\ call.fn = "fetch_model" /\ call.pc = "create"
    /\ \/ /\ files' = [files EXCEPT ![temp_path] = Some(<<>>)]
          /\ call' = [call EXCEPT !.pc = "loop"]
          /\ out' = out
       \/ /\ Return(Err(IoError))
          /\ files' = files
    /\ UNCHANGED <<input, call2, out2, handleVars, heap, live>>

\* one turn of the loop with bytes read: write_all and hasher.update
DownloadChunk ==
    /\ call.fn = "fetch_model" /\ call.pc = "loop"
    /\ call.body # <<>>
    /\ LET buffer == Head(call.body)
       IN  \/ /\ files' = [files EXCEPT ![temp_path] = Some(@.value \o buffer)]
              /\ call' = [call EXCEPT !.body = Tail(@), !.downloaded = @ \o buffer]
              /\ out' = out
           \/ /\ Return(Err(IoError))
              /\ files' = files
    /\ UNCHANGED <<input, call2, out2, handleVars, heap, live>>

\* reader.read fails
DownloadReadError ==
    /\ call.fn = "fetch_model" /\ call.pc = "loop"
    /\ Return(Err(download_error("Model download failed")))
    /\ UNCHANGED <<input, call2, out2, files, handleVars, heap, live>>

\* bytes_read == 0: leave the loop, close the file and compare the digests
DownloadVerify ==
    /\ call.fn = "fetch_model" /\ call.pc = "loop"
    /\ call.body = <<>>
    /\ LET actual_hash == Sha256(call.downloaded)
       IN  IF ~checksum_matches(actual_hash, input.options.expected_sha256)
           THEN /\ files' = [files EXCEPT ![temp_path] = None]
                /\ Return(Err(download_error("Checksum verification failed")))
           ELSE /\ files' = files
                /\ call' = [call EXCEPT !.pc = "publish"]
                /\ out' = out
    /\ UNCHANGED <<input, call2, out2, handleVars, heap, live>>

\* if options.force && options.output.exists() { fs::remove_file(output)? }
FetchRemoveOutput ==
    /\ call.fn = "fetch_model" /\ call.pc = "publish"
    /\ IF input.options.force /\ exists(output_path)
       THEN \/ /\ files' = [files EXCEPT ![output_path] = None]
               /\ call' = [call EXCEPT !.pc = "rename"]
               /\ out' = out
            \/ /\ Return(Err(IoError))
               /\ files' = files
       ELSE /\ files' = files
            /\ call' = [call EXCEPT !.pc = "rename"]
            /\ out' = out
    /\ UNCHANGED <<input, call2, out2, handleVars, heap, live>>

\* fs::rename(&temp_path, &options.output)?
FetchRename ==
    /\ call.fn = "fetch_model" /\ call.pc = "rename"
    /\ \/ /\ files' = [files EXCEPT ![output_path] = files[temp_path], ![temp_path] = None]
          /\ Return(Ok(output_path))
       \/ /\ Return(Err(IoError))
          /\ files' = files
    /\ UNCHANGED <<input, call2, out2, handleVars, heap, live>>

NextFetch ==
    \/ FetchModel
    \/ DownloadCreate
    \/ DownloadChunk
    \/ DownloadReadError
    \/ DownloadVerify
    \/ FetchRemoveOutput
    \/ FetchRename

SpecFetch == InitFetch /\ [][NextFetch]_vars

RECURSIVE Concat(_)
Concat(chunks) == IF chunks = <<>> THEN <<>> ELSE Head(chunks) \o Concat(Tail(chunks))

ChecksumFailed == out # NoValue /\ ~out.ok /\ out.error.message = "Checksum verification failed"

\* while downloading, the temporary file holds the bytes read so far; a
\* checksum failure leaves no temporary file and the output as it was, and is
\* the result whenever the whole body was read and its digest is not the
\* expected one
FetchStates ==
    call.fn = "fetch_model" =>
        /\ call.pc = "loop" => files[temp_path] = Some(call.downloaded)
        /\ ChecksumFailed =>
              /\ ~exists(temp_path)
              /\ files[output_path] = input.existing
              /\ call.downloaded = Concat(input.body)
              /\ Sha256(call.downloaded) # input.options.expected_sha256
        /\ (call.pc = "done" /\ out # NoValue /\ out.ok /\ call.downloaded # <<>>) =>
              Sha256(call.downloaded) = input.options.expected_sha256

\* the output path changes only after the whole body was read into the
\* temporary file and its digest is the expected one, and a rename puts
\* exactly the downloaded bytes there
FetchPublishes ==
    files'[output_path] # files[output_path] =>
        /\ call.pc \in {"publish", "rename"}
        /\ call.downloaded = Concat(input.body)
        /\ Sha256(call.downloaded) = input.options.expected_sha256
        /\ files[temp_path] = Some(call.downloaded)
        /\ exists(output_path)' => files'[output_path] = Some(Concat(input.body))

compose_needs_processed_sources_only(fg_src, bg_src, export_mask) ==
    fg_src = "Processed" \/ bg_src = "Processed"

compose_needs_processed(fg_src, bg_src, export_mask) ==
    fg_src = "Processed" \/ bg_src = "Processed" \/ export_mask

\* the arm a match on (source, processed.as_ref()) takes
SourceArm(src, processed_is_some) ==
    IF src = "Raw" THEN "none"
    ELSE IF src = "Processed" /\ processed_is_some THEN "none"
    ELSE IF src = "Processed" THEN "unreachable: processed guaranteed"
    ELSE "unreachable: auto resolved"

compose_branches(cmd) ==
    LET fg_src == compose_fg_src(cmd)
        bg_src == resolve_mask_source_arg(cmd.bg_mask_source,
                                          processing_requested(cmd.mask_processing))
        processed_is_some == compose_needs_processed(fg_src, bg_src, cmd.exports.export_mask)
        panic ==
            IF fg_src = "Auto" THEN "assertion: fg_src should be resolved from Auto"
            ELSE IF bg_src = "Auto" THEN "assertion: bg_src should be resolved from Auto"
            ELSE IF SourceArm(fg_src, processed_is_some) # "none"
                 THEN SourceArm(fg_src, processed_is_some)
            ELSE IF SourceArm(bg_src, processed_is_some) # "none"
                 THEN SourceArm(bg_src, processed_is_some)
            ELSE IF cmd.exports.export_mask /\ ~processed_is_some
                 THEN "expect: processed mask must exist when export_mask is requested"
            ELSE "none"
    IN  [fg_src |-> fg_src, bg_src |-> bg_src, processed_is_some |-> processed_is_some,
         panic |-> panic]

CallComposeBranches ==
    /\ call2.fn = "none"
    /\ call2' = [fn |-> "compose::run"]
    /\ out2' = compose_branches(input)
    /\ UNCHANGED <<input, call, out, handleVars, heapVars>>

NextComposeBranches ==
    \/ RunCompose
    \/ CallComposeBranches

SpecComposeBranches == InitCompose /\ [][NextComposeBranches]_vars

\* C25: in the compose command, for every combination of foreground source,
\* background source, export-mask request and processing arguments, neither
\* resolved source is Auto and the processed mask has been computed whenever
\* the foreground source is Processed, the background source is Processed or
\* export-mask is requested, so that no unreachable!() arm and not the
\* expect() of the export-mask path is reached.
C25_ComposeBranches ==
    call2.fn = "compose::run" =>
        /\ out2.fg_src \in {"Raw", "Processed"}
        /\ out2.bg_src \in {"Raw", "Processed"}
        /\ (out2.fg_src = "Processed" \/ out2.bg_src = "Processed"
              \/ input.exports.export_mask) => out2.processed_is_some
        /\ out2.panic = "none"
        /\ call.fn = "compose::run" => out.processed.some = out2.processed_is_some

\* the mask is exported while both layers use the raw matte
C25_Witness ==
    /\ call2.fn = "compose::run" /\ call.fn = "compose::run"
    /\ out2.fg_src = "Raw" /\ out2.bg_src = "Raw"
    /\ input.exports.export_mask
    /\ out2.processed_is_some
    /\ \E i \in DOMAIN out.saved : out.saved[i].file = "mask"

(***************************************************************************)
(* cut::run (src/src/commands/cut.rs; handle_cut of src/src/main.rs has    *)
(* the same closure) step by step.  `call` is the frame of the run: its    *)
(* position, the captured processed_mask, the masks returned by the calls  *)
(* of processed(None) so far, and the files saved.                         *)
(***************************************************************************)
cut_session(cmd) ==
    InferencedMatte_new(RgbFor(cmd.raw_matte), cmd.raw_matte,
                        cut_build_outline(cmd.mask_processing,
                                          [DefaultOptions EXCEPT !.binary = FALSE]))

cut_alpha_source(cmd) ==
    LET processing_requested_ ==
            \/ cmd.mask_processing.binary
            \/ is_some(cmd.mask_processing.blur)
            \/ is_some(cmd.mask_processing.dilate)
            \/ cmd.mask_processing.fill_holes
            \/ cmd.mask_processing.mask_threshold # DefaultOptions.mask_threshold
    IN  IF cmd.alpha_source = "Auto"
        THEN (IF processing_requested_ THEN "Processed" ELSE "Raw")
        ELSE cmd.alpha_source

\* the closure without its cache
ensure_processed_uncached(frame, session) ==
    LET mask == matte_processed(session)
    IN  [mask |-> mask,
         frame |-> [frame EXCEPT !.processed_calls = Append(@, mask)]]

\* the closure ensure_processed: the mask it returns and the frame after it
ensure_processed(frame, session) ==
    IF frame.processed_mask.some
    THEN [mask |-> frame.processed_mask.value, frame |-> frame]
    ELSE LET mask == matte_processed(session)
         IN  [mask |-> mask,
              frame |-> [frame EXCEPT !.processed_mask = Some(mask),
                                      !.processed_calls = Append(@, mask)]]

InitCut ==
    /\ NoHandles
    /\ input \in CutCommand
    /\ call = NoCall /\ out = NoValue
    /\ call2 = NoCall /\ out2 = NoValue

\* up to the definition of the closure
CutRun ==
    /\ call.fn = "none"
    /\ call' = [fn |-> "cut::run", pc |-> "foreground", processed_mask |-> None,
                processed_calls |-> <<>>, saved |-> <<>>]
    /\ UNCHANGED <<input, out, call2, out2, handleVars, heapVars>>

\* the match on alpha_source and foreground.save
CutForeground ==
    /\ call.fn = "cut::run" /\ call.pc = "foreground"
    /\ LET session == cut_session(input)
       IN  IF cut_alpha_source(input) = "Raw"
           THEN LET foreground == compose_foreground(session.rgb_image, session.raw_matte)
                IN  IF foreground.ok
                    THEN /\ call' = [call EXCEPT !.pc = "export_matte",
                                        !.saved = Append(@, Saved("foreground", foreground.value))]
                         /\ out' = out
                    ELSE /\ call' = [call EXCEPT !.pc = "done"]
                         /\ out' = foreground
           ELSE LET ensured == ensure_processed(call, session)
                    foreground == compose_foreground(ensured.mask.rgb_image, ensured.mask.mask)
                IN  IF foreground.ok
                    THEN /\ call' = [ensured.frame EXCEPT !.pc = "export_matte",
                                        !.saved = Append(@, Saved("foreground", foreground.value))]
                         /\ out' = out
                    ELSE /\ call' = [ensured.frame EXCEPT !.pc = "done"]
                         /\ out' = foreground
    /\ UNCHANGED <<input, call2, out2, handleVars, heapVars>>

\* if let Some(path) = &save_mask_path
CutExportMatte ==
    /\ call.fn = "cut::run" /\ call.pc = "export_matte"
    /\ call' = [call EXCEPT !.pc = "export_mask",
                   !.saved = @ \o SavedIf(input.export_matte, "matte",
                                          cut_session(input).raw_matte)]
    /\ UNCHANGED <<input, out, call2, out2, handleVars, heapVars>>

\* if let Some(path) = &save_processed_mask_path, and the return
CutExportMask ==
    /\ call.fn = "cut::run" /\ call.pc = "export_mask"
    /\ IF input.export_mask
       THEN LET ensured == ensure_processed(call, cut_session(input))
            IN  call' = [ensured.frame EXCEPT !.pc = "done",
                            !.saved = Append(@, Saved("mask", ensured.mask.mask))]
       ELSE call' = [call EXCEPT !.pc = "done"]
    /\ out' = Ok(<<>>)
    /\ UNCHANGED <<input, call2, out2, handleVars, heapVars>>

NextCut ==
    \/ CutRun
    \/ CutForeground
    \/ CutExportMatte
    \/ CutExportMask

SpecCut == InitCut /\ [][NextCut]_vars

SavedAs(file) == {call.saved[i].image : i \in {j \in DOMAIN call.saved : call.saved[j].file = file}}

\* C26: in the cut command the processed mask is computed lazily and at most
\* once per run: processed(None) is invoked zero times when the alpha source
\* resolves to Raw and export-mask is not requested, and exactly once
\* otherwise; when the foreground alpha uses the processed mask and the
\* processed mask is also exported, both use the same mask image.
C26_ProcessedOnce ==
    call.fn = "cut::run" =>
        LET alpha_source == cut_alpha_source(input)
            calls == Len(call.processed_calls)
        IN  /\ calls <= 1
            /\ call.pc = "foreground" => calls = 0
            /\ (call.pc \in {"export_matte", "export_mask"} /\ alpha_source = "Raw") => calls = 0
            /\ call.pc = "done" =>
                  /\ out.ok
                  /\ calls = IF alpha_source = "Raw" /\ ~input.export_mask THEN 0 ELSE 1
                  /\ alpha_source = "Processed" =>
                        SavedAs("foreground") =
                            {compose_foreground(cut_session(input).rgb_image,
                                                call.processed_calls[1].mask).value}
                  /\ input.export_mask => SavedAs("mask") = {call.processed_calls[1].mask}
                  /\ out = cut_run(input).result
                  /\ call.saved = cut_run(input).saved

\* the processed mask cuts the foreground and is exported, after one call of
\* processed(None), and it differs from the raw matte
C26_Witness ==
    /\ call.fn = "cut::run" /\ call.pc = "done"
    /\ cut_alpha_source(input) = "Processed"
    /\ input.export_mask
    /\ Len(call.processed_calls) = 1
    /\ SavedAs("mask") # {input.raw_matte}

(***************************************************************************)
(* The breadth-first flood of fill_mask_holes (src/src/mask.rs), one       *)
(* dequeue per step.  `call` is the frame: the queue, the visited vector   *)
(* and, for every pixel, how often it was marked and had its neighbours    *)
(* examined.                                                               *)
(***************************************************************************)
FloodMasks == {m \in GrayImages : \A i \in DOMAIN m.px : m.px[i] \in {0, 255}}

already_visited_never(visited, id) == FALSE

\* if visited[id] { continue; }
already_visited(visited, id) == visited[id]

InitFlood ==
    /\ NoHandles
    /\ input \in [mask : FloodMasks, threshold : {128}]
    /\ call = NoCall /\ out = NoValue
    /\ call2 = NoCall /\ out2 = NoValue

\* the two seeding loops
FloodSeed ==
    /\ call.fn = "none"
    /\ call' = [fn |-> "fill_mask_holes", pc |-> "bfs",
                queue |-> BorderSeeds(input.mask, input.threshold),
                visited |-> [id \in 0..(input.mask.w * input.mask.h - 1) |-> FALSE],
                marked |-> [id \in 0..(input.mask.w * input.mask.h - 1) |-> 0]]
    /\ UNCHANGED <<input, out, call2, out2, handleVars, heapVars>>

\* a dequeued pixel that is already visited
FloodSkip ==
    /\ call.fn = "fill_mask_holes" /\ call.pc = "bfs"
    /\ call.queue # <<>>
    /\ already_visited(call.visited, idx(input.mask.w, Head(call.queue)[1], Head(call.queue)[2]))
    /\ call' = [call EXCEPT !.queue = Tail(@)]
    /\ UNCHANGED <<input, out, call2, out2, handleVars, heapVars>>

\* a dequeued pixel that is not: mark it and enqueue its neighbours
FloodVisit ==
    /\ call.fn = "fill_mask_holes" /\ call.pc = "bfs"
    /\ call.queue # <<>>
    /\ LET x == Head(call.queue)[1]
           y == Head(call.queue)[2]
           id == idx(input.mask.w, x, y)
           visited == [call.visited EXCEPT ![id] = TRUE]
       IN  /\ ~already_visited(call.visited, id)
           /\ call' = [call EXCEPT
                          !.queue = Tail(@) \o Neighbours(input.mask, input.threshold, visited, x, y),
                          !.visited = visited,
                          !.marked = [@ EXCEPT ![id] = @ + 1]]
    /\ UNCHANGED <<input, out, call2, out2, handleVars, heapVars>>

\* the queue is empty: write the output
FloodReturn ==
    /\ call.fn = "fill_mask_holes" /\ call.pc = "bfs"
    /\ call.queue = <<>>
    /\ call' = [call EXCEPT !.pc = "done"]
    /\ out' = [input.mask EXCEPT !.px = [i \in DOMAIN input.mask.px |->
                  IF input.mask.px[i] >= input.threshold \/ ~call.visited[i - 1]
                  THEN 255 ELSE 0]]
    /\ UNCHANGED <<input, call2, out2, handleVars, heapVars>>

NextFlood ==
    \/ FloodSeed
    \/ FloodSkip
    \/ FloodVisit
    \/ FloodReturn

\* the function runs to its end once called: every step is taken eventually
SpecFlood == InitFlood /\ [][NextFlood]_vars /\ WF_vars(NextFlood)

VisitedPixels == {p \in Coords(input.mask) : call.visited[idx(input.mask.w, p[1], p[2])]}

FloodInvariant ==
    call.fn = "fill_mask_holes" =>
        /\ \A i \in DOMAIN call.queue : call.queue[i] \in DarkPixels(input.mask, input.threshold)
        /\ VisitedPixels \subseteq DarkPixels(input.mask, input.threshold)
        /\ \A id \in DOMAIN call.marked :
              call.marked[id] = IF call.visited[id] THEN 1 ELSE 0
        /\ call.pc = "done" =>
              /\ call.queue = <<>>
              /\ VisitedPixels = BorderConnectedDark(input.mask, input.threshold)
              /\ out = fill_mask_holes(input.mask, input.threshold)

\* C27: the breadth-first flood of fill_mask_holes terminates for every image
\* with width and height at least 1: only pixels darker than the threshold
\* are enqueued or marked visited, each pixel is marked and has its
\* neighbours examined at most once, later dequeues of it being skipped, the
\* queue eventually empties, and then the visited set is exactly the set of
\* dark pixels 4-connected to a dark border pixel.
C27_FloodTerminates == []FloodInvariant /\ <>(call.fn = "fill_mask_holes" /\ call.pc = "done")

\* a 3x3 image with a dark centre enclosed by bright pixels and three dark
\* border pixels: the flood ends with the three visited and the centre filled
C27_Witness ==
    /\ call.fn = "fill_mask_holes" /\ call.pc = "done"
    /\ input.mask.w = 3 /\ input.mask.h = 3
    /\ Cardinality(VisitedPixels) = 3
    /\ Cardinality(DarkPixels(input.mask, input.threshold)) = 4
    /\ out.px[5] = 255 /\ input.mask.px[5] = 0

(***************************************************************************)
(* processed() and the queue of the handle it returns (src/src/lib.rs),    *)
(* over the handle machine Spec.                                           *)
(***************************************************************************)
EnablesNoOperation(options) ==
    ~options.blur /\ ~options.binary /\ ~options.dilate /\ ~options.fill_holes

\* processed(None) called on a MaskHandle that processed() returned and that
\* no builder call has touched since
FurtherProcessedNone ==
    /\ processedCall.called
    /\ ~processedCall.options.some
    /\ processedCall.self.kind = "MaskHandle"
    /\ processedCall.self.operations = <<>>

ReturnedHandle ==
    processedCall.called =>
        LET self == processedCall.self
            returned == processedCall.returned
        IN  /\ returned.kind = "MaskHandle"
            /\ returned.operations = <<>>
            /\ returned.default_mask_processing = self.default_mask_processing
            /\ returned.rgb_image = self.rgb_image
            /\ processedCall.ops =
                  self.operations
                      \o (IF processedCall.options.some
                          THEN operations_from_options(processedCall.options.value)
                          ELSE IF self.operations = <<>>
                               THEN operations_from_options(self.default_mask_processing)
                               ELSE <<>>)
            /\ returned.mask = apply_operations(HandleImage(self), processedCall.ops)
            /\ FurtherProcessedNone =>
                  /\ processedCall.ops = operations_from_options(self.default_mask_processing)
                  /\ processedCall.ops = <<>> <=> EnablesNoOperation(self.default_mask_processing)

\* a call either empties the queue (matte(), processed()) or appends one
\* operation to it and leaves image and defaults alone (a builder call)
QueueSteps ==
    (handle.kind # "none" /\ ncalls' # ncalls) =>
        \/ handle'.operations = <<>>
        \/ /\ Len(handle'.operations) = Len(handle.operations) + 1
           /\ SubSeq(handle'.operations, 1, Len(handle.operations)) = handle.operations
           /\ handle'.kind = handle.kind
           /\ HandleImage(handle') = HandleImage(handle)
           /\ handle'.default_mask_processing = handle.default_mask_processing

\* C28 as stated: the MaskHandle returned by processed() has an empty queue
\* and the stored defaults of the handle it was made from, and a further
\* processed(None) on the result applies the canonical sequence of the stored
\* defaults again and returns the mask unchanged only when the stored
\* defaults enable no operation.
C28_FurtherProcessedChangesMask ==
    /\ ReturnedHandle
    /\ (FurtherProcessedNone /\ processedCall.returned.mask = processedCall.self.mask) =>
          EnablesNoOperation(processedCall.self.default_mask_processing)

\* C28 as amended: the MaskHandle returned by processed() has an empty queue
\* and the stored defaults of the handle it was made from; the operations
\* queued before the call are applied in that call, and the queue of a later
\* call holds only what was pushed after it; a further processed(None) on the
\* result applies the canonical sequence of the stored defaults again to the
\* processed mask, a sequence that is empty only when the stored defaults
\* enable no operation (the mask itself may come out unchanged).
C28_ProcessedEmptiesQueue == []ReturnedHandle /\ [][QueueSteps]_vars

\* a further processed(None) with stored defaults that enable Threshold and
\* FillHoles: the two are applied again, to a mask they no longer change
C28_Witness ==
    /\ FurtherProcessedNone
    /\ processedCall.self.default_mask_processing.binary
    /\ processedCall.self.default_mask_processing.fill_holes
    /\ Len(processedCall.ops) = 2
    /\ processedCall.returned.mask = processedCall.self.mask
    /\ processedCall.self.mask # inferenced.raw_matte

(***************************************************************************)
(* The two tests for "processing requested": utils::processing_requested   *)
(* (src/src/commands/utils.rs) and the inline test of the mask command     *)
(* (src/src/commands/mask.rs), on every bounded MaskProcessingArgs.        *)
(***************************************************************************)
mask_processing_requested_no_threshold(args) ==
    \/ args.binary = "Enabled"
    \/ is_some(args.blur)
    \/ is_some(args.dilate)
    \/ args.fill_holes

\* let processing_requested = ... of mask::run
mask_processing_requested(args) ==
    \/ args.binary = "Enabled"
    \/ is_some(args.blur)
    \/ is_some(args.dilate)
    \/ args.fill_holes
    \/ args.mask_threshold # DefaultOptions.mask_threshold

CallMaskProcessingRequested ==
    /\ call2.fn = "none"
    /\ call2' = [fn |-> "mask::run processing_requested"]
    /\ out2' = mask_processing_requested(input)
    /\ UNCHANGED <<input, call, out, handleVars, heapVars>>

NextRequested ==
    \/ CallProcessingRequested
    \/ CallMaskProcessingRequested

SpecRequested == InitMaskArgs /\ [][NextRequested]_vars

\* C29: the two formulations of 'processing requested' agree on every
\* MaskProcessingArgs value: the record comparison of
\* utils::processing_requested is true exactly when the inline test of the
\* mask command is true (binary is Enabled, or a blur sigma is given, or a
\* dilate radius is given, or fill_holes is set, or mask_threshold differs
\* from the default 120), so Auto resolves to the same source under either.
C29_RequestedTestsAgree ==
    (call.fn = "processing_requested" /\ call2.fn = "mask::run processing_requested") =>
        /\ out = out2
        /\ out2 = (\/ input.binary = "Enabled"
                   \/ input.blur.some
                   \/ input.dilate.some
                   \/ input.fill_holes
                   \/ input.mask_threshold # 120)
        /\ resolve_mask_export_source("Auto", out) = resolve_mask_export_source("Auto", out2)
        /\ resolve_mask_export_source("Auto", out2) = IF out2 THEN "Processed" ELSE "Raw"

\* --binary auto with a dilate radius equal to the default one: the derived
\* record differs from the default in binary and dilate, and both tests hold
C29_Witness ==
    /\ call.fn = "processing_requested" /\ call2.fn = "mask::run processing_requested"
    /\ input.binary = "Auto"
    /\ input.dilate = Some(DefaultOptions.dilation_radius)
    /\ ~input.blur.some /\ ~input.fill_holes /\ input.mask_threshold = 120
    /\ out /\ out2

(***************************************************************************)
(* has_soft_conflict (src/src/commands/utils.rs) against the options       *)
(* derived by MaskProcessingOptions::from (src/src/cli.rs), on every       *)
(* bounded MaskProcessingArgs.                                             *)
(***************************************************************************)
CallMaskProcessingOptionsFrom ==
    /\ call.fn = "none"
    /\ call' = [fn |-> "MaskProcessingOptions::from"]
    /\ out' = MaskProcessingOptions_from(input)
    /\ UNCHANGED <<input, call2, out2, handleVars, heapVars>>

NextSoftConflict ==
    \/ CallMaskProcessingOptionsFrom
    \/ CallHasSoftConflict

SpecSoftConflict == InitMaskArgs /\ [][NextSoftConflict]_vars

\* every Dilate and FillHoles of the sequence has a Threshold before it
HardOpsAfterThreshold(operations) ==
    \A i \in DOMAIN operations :
        operations[i].op \in {"Dilate", "FillHoles"} =>
            \E j \in 1..(i - 1) : operations[j].op = "Threshold"

\* C30: for every MaskProcessingArgs value, with options =
\* MaskProcessingOptions::from(args) (options.binary being true iff binary is
\* Enabled, or binary is Auto and dilate is given or fill_holes is set),
\* has_soft_conflict(args) holds exactly when options.binary is false and
\* options.dilate or options.fill_holes is true; so under Enabled or Auto the
\* canonical sequence derived from the options never contains Dilate or
\* FillHoles without a preceding Threshold.
C30_SoftConflictIsHardOpWithoutThreshold ==
    (call.fn = "MaskProcessingOptions::from" /\ call2.fn = "has_soft_conflict") =>
        /\ out.binary <=> (\/ input.binary = "Enabled"
                           \/ input.binary = "Auto" /\ (input.dilate.some \/ input.fill_holes))
        /\ out2 <=> (~out.binary /\ (out.dilate \/ out.fill_holes))
        /\ input.binary \in {"Enabled", "Auto"} =>
              HardOpsAfterThreshold(operations_from_options(out))
        /\ out2 <=> ~HardOpsAfterThreshold(operations_from_options(out))

\* --binary auto with --fill-holes: no conflict, and the sequence is
\* Threshold then FillHoles
C30_Witness ==
    /\ call.fn = "MaskProcessingOptions::from" /\ call2.fn = "has_soft_conflict"
    /\ input.binary = "Auto" /\ input.fill_holes
    /\ ~input.dilate.some /\ ~input.blur.some
    /\ ~out2
    /\ Len(operations_from_options(out)) = 2
    /\ operations_from_options(out)[1].op = "Threshold"
    /\ operations_from_options(out)[2].op = "FillHoles"

====
